---- MODULE Spec2Model ----
(***************************************************************************)
(* The multilevel log-reduction pipeline of src/app.py:                    *)
(*   level1_extract_critical_content, level2_deduplicate_and_prioritize,   *)
(*   level3_compress_and_summarize, level4_final_optimization and their    *)
(*   driver multilevel_chunk_logs (smart_chunk_logs).                      *)
(* Further: multilevel_chunk_text (smart_chunk_text), the retry loop of     *)
(* process_chat_query, and the session state of the dashboard main().      *)
(* A text is a sequence of one-character strings.  Indices that the code   *)
(* keeps 0-based (line indices) are 0-based here too.                      *)
(***************************************************************************)
EXTENDS Integers, Sequences, FiniteSets, TLC

VARIABLES
    logs,                \* argument: the list of records
    max_chars_per_log,   \* argument: per-record character budget
    max_logs,            \* argument: maximum number of records
    pos,                 \* how many records of logs[:max_logs] the loop has visited
    critical_lines,      \* level 1 result (or its fallback) of the record visited last
    prioritized_content, \* level 2 result of that record
    max_length,          \* max_length of the last call of level 3
    compressed,          \* level 3 result
    target_chars,        \* target_chars of the last call of level 4
    optimized,           \* level 4 result
    chunked_logs,        \* the blocks appended so far
    chunk_src,           \* for each block, the 1-based position in logs of its record
    pc,                  \* the position of the function that is running
    result,              \* the returned string once pc = "done"
    history,             \* the earlier calls of the process: arguments and result
    scored_lines,        \* level 2 called on its own: its sorted scored_lines
    unique_lines,        \* level 3 called on its own: its unique_lines
    text,                \* multilevel_chunk_text: the argument text
    outcomes,            \* process_chat_query: the outcomes of the model calls to come
    attempt,             \* process_chat_query: the loop variable of the retry loop
    calls,               \* process_chat_query: the model calls made so far
    slept,               \* process_chat_query: the delays given to time.sleep so far
    last_error,          \* process_chat_query: the message of the last exception
    session_state,       \* main: st.session_state
    uploaded_file        \* main: the file held by st.file_uploader

vars == <<logs, max_chars_per_log, max_logs, pos, critical_lines,
          prioritized_content, max_length, compressed, target_chars, optimized,
          chunked_logs, chunk_src, pc, result, history, scored_lines,
          unique_lines, text, outcomes, attempt, calls, slept, last_error,
          session_state, uploaded_file>>

\* the locals of a level, observed when the level is called on its own
locals == <<scored_lines, unique_lines>>

\* the variables of multilevel_chunk_text, process_chat_query and main, which the
\* log pipeline leaves alone
extras == <<text, outcomes, attempt, calls, slept, last_error, session_state,
            uploaded_file>>

\* the arguments of multilevel_chunk_logs
args == <<logs, max_chars_per_log, max_logs>>

\* the stage values of one record
stages == <<critical_lines, prioritized_content, max_length, compressed,
            target_chars, optimized>>

\* no query, no text reduction and no dashboard session is under way
ExtrasIdle ==
    /\ text = <<>>
    /\ outcomes = <<>>
    /\ attempt = 0
    /\ calls = 0
    /\ slept = <<>>
    /\ last_error = "none"
    /\ session_state = <<>>
    /\ uploaded_file = "none"

(***************************************************************************)
(* Program constants.                                                      *)
(***************************************************************************)
MinRecordLen == 10      \* len(content.strip()) < 10: record skipped
MinLineLen == 10        \* len(line_stripped) > 10: line kept by level 3
ContentHashLen == 200   \* content.strip()[:200]
LineHashLen == 100      \* line_stripped.lower()[:100]
TopContexts == 20       \* scored_lines[:20]
LineCap == 50           \* optimized_lines[:50]
ContextBefore == 2      \* max(0, i - 2)
ContextAfter == 3       \* min(len(lines), i + 3)

(***************************************************************************)
(* Characters.                                                             *)
(***************************************************************************)
NL == "\n"

WhiteSpace == {" ", "\t", "\n", "\r"}

Digits == {"0", "1", "2", "3", "4", "5", "6", "7", "8", "9"}

LowerLetters ==
    {"a", "b", "c", "d", "e", "f", "g", "h", "i", "j", "k", "l", "m",
     "n", "o", "p", "q", "r", "s", "t", "u", "v", "w", "x", "y", "z"}

\* str.lower() on ASCII letters
LowerOf ==
    [c \in {"A", "B", "C", "D", "E", "F", "G", "H", "I", "J", "K", "L", "M",
            "N", "O", "P", "Q", "R", "S", "T", "U", "V", "W", "X", "Y", "Z"} |->
        CASE c = "A" -> "a" [] c = "B" -> "b" [] c = "C" -> "c" [] c = "D" -> "d"
          [] c = "E" -> "e" [] c = "F" -> "f" [] c = "G" -> "g" [] c = "H" -> "h"
          [] c = "I" -> "i" [] c = "J" -> "j" [] c = "K" -> "k" [] c = "L" -> "l"
          [] c = "M" -> "m" [] c = "N" -> "n" [] c = "O" -> "o" [] c = "P" -> "p"
          [] c = "Q" -> "q" [] c = "R" -> "r" [] c = "S" -> "s" [] c = "T" -> "t"
          [] c = "U" -> "u" [] c = "V" -> "v" [] c = "W" -> "w" [] c = "X" -> "x"
          [] c = "Y" -> "y" [] c = "Z" -> "z"]

LowerChar(c) == IF c \in DOMAIN LowerOf THEN LowerOf[c] ELSE c

\* \w of the regex engine (ASCII): letters, digits, underscore
WordChars == LowerLetters \cup DOMAIN LowerOf \cup Digits \cup {"_"}

IsWordChar(c) == c \in WordChars

(***************************************************************************)
(* Python string and slice operations.                                     *)
(***************************************************************************)
Min(a, b) == IF a <= b THEN a ELSE b
Max(a, b) == IF a >= b THEN a ELSE b

\* s[:n]
PyPrefix(s, n) ==
    IF n >= 0 THEN SubSeq(s, 1, Min(n, Len(s)))
    ELSE SubSeq(s, 1, Max(0, Len(s) + n))

\* s[k:]  (k may be negative: counted from the end)
PyFrom(s, k) ==
    IF k >= 0 THEN SubSeq(s, Min(k, Len(s)) + 1, Len(s))
    ELSE SubSeq(s, Max(0, Len(s) + k) + 1, Len(s))

\* s[-n:]  (n = 0 gives s[0:], the whole string)
PySuffix(s, n) == PyFrom(s, 0 - n)

\* int(n * p / q) for the float factors 1.5, 0.6, 0.4: truncation toward zero
TruncMul(n, p, q) ==
    IF n >= 0 THEN (n * p) \div q ELSE 0 - (((0 - n) * p) \div q)

\* s.lower()
Lower(s) == [k \in 1..Len(s) |-> LowerChar(s[k])]

\* s.strip()
Strip(s) ==
    IF \A k \in 1..Len(s) : s[k] \in WhiteSpace THEN <<>>
    ELSE LET a == CHOOSE k \in 1..Len(s) :
                      s[k] \notin WhiteSpace /\ \A j \in 1..(k - 1) : s[j] \in WhiteSpace
             b == CHOOSE k \in 1..Len(s) :
                      s[k] \notin WhiteSpace /\ \A j \in (k + 1)..Len(s) : s[j] \in WhiteSpace
         IN  SubSeq(s, a, b)

RECURSIVE SplitFrom(_, _, _)
\* the pieces of s from start on; k is where the search for the next newline starts
SplitFrom(s, start, k) ==
    LET newlines == {j \in k..Len(s) : s[j] = NL}
    IN  IF newlines = {} THEN <<SubSeq(s, start, Len(s))>>
        ELSE LET n == CHOOSE j \in newlines : \A i \in newlines : j <= i
             IN  <<SubSeq(s, start, n - 1)>> \o SplitFrom(s, n + 1, n + 1)

\* s.split('\n')
Split(s) == SplitFrom(s, 1, 1)

RECURSIVE Join(_, _)
\* sep.join(parts)
Join(parts, sep) ==
    IF parts = <<>> THEN <<>>
    ELSE IF Len(parts) = 1 THEN parts[1]
    ELSE LET half == Len(parts) \div 2
         IN  Join(SubSeq(parts, 1, half), sep) \o sep
                 \o Join(SubSeq(parts, half + 1, Len(parts)), sep)

\* sub in s
Contains(s, sub) ==
    \E k \in 1..(Len(s) - Len(sub) + 1) : \A j \in 1..Len(sub) : s[k + j - 1] = sub[j]

StartsWith(s, pre) == Len(pre) <= Len(s) /\ SubSeq(s, 1, Len(pre)) = pre

EndsWith(s, suf) ==
    Len(suf) <= Len(s) /\ SubSeq(s, Len(s) - Len(suf) + 1, Len(s)) = suf

(***************************************************************************)
(* Regular expressions.  Every pattern of the pipeline that is searched    *)
(* with re.search has the shape (?i)\b(alt|alt|...)\b; an alternative is a *)
(* sequence of tokens: a lower-case letter (matched case-insensitively),   *)
(* SP for \s+ and ANY for .* (any run of characters without a newline).    *)
(* Alternatives that differ only in case are one alternative under (?i).   *)
(***************************************************************************)
SP == "\\s+"
ANY == ".*"

\* \b at the gap before s[k] (k = Len(s) + 1: the end of the string)
Boundary(s, k) ==
    (k > 1 /\ IsWordChar(s[k - 1])) # (k <= Len(s) /\ IsWordChar(s[k]))

RECURSIVE MatchAlt(_, _, _, _)
\* tokens j.. of alternative toks match s from position k on, and \b follows
MatchAlt(toks, j, s, k) ==
    IF j > Len(toks) THEN Boundary(s, k)
    ELSE IF toks[j] = ANY THEN
        \E m \in k..(Len(s) + 1) :
            /\ \A q \in k..(m - 1) : s[q] # NL
            /\ MatchAlt(toks, j + 1, s, m)
    ELSE IF toks[j] = SP THEN
        \E m \in (k + 1)..(Len(s) + 1) :
            /\ \A q \in k..(m - 1) : s[q] \in WhiteSpace
            /\ MatchAlt(toks, j + 1, s, m)
    ELSE k <= Len(s) /\ LowerChar(s[k]) = toks[j] /\ MatchAlt(toks, j + 1, s, k + 1)

\* re.search(r'(?i)\b(alts)\b', s)
ReSearch(alts, s) ==
    \E k \in 1..Len(s) :
        /\ Boundary(s, k)
        /\ \E a \in alts : MatchAlt(a, 1, s, k)

\* semantic_error_patterns of multilevel_chunk_logs
semantic_error_patterns ==
    <<{
       <<"e", "r", "r", "o", "r">>,
       <<"f", "a", "t", "a", "l">>,
       <<"c", "r", "i", "t", "i", "c", "a", "l">>,
       <<"p", "a", "n", "i", "c">>},
      {
       <<"f", "a", "i", "l", "e", "d">>,
       <<"f", "a", "i", "l", "u", "r", "e">>,
       <<"t", "i", "m", "e", "o", "u", "t">>,
       <<"c", "r", "a", "s", "h", "e", "d">>,
       <<"c", "r", "a", "s", "h">>,
       <<"a", "b", "o", "r", "t">>},
      {
       <<"e", "x", "c", "e", "p", "t", "i", "o", "n">>,
       <<"t", "r", "a", "c", "e", "b", "a", "c", "k">>,
       <<"s", "t", "a", "c", "k", SP, "t", "r", "a", "c", "e">>},
      {
       <<"p", "o", "d", SP, ANY, "f", "a", "i", "l">>,
       <<"p", "o", "d", SP, ANY, "e", "r", "r", "o", "r">>,
       <<"c", "r", "a", "s", "h", "l", "o", "o", "p", "b", "a", "c", "k", "o", "f", "f">>,
       <<"n", "o", "t", "r", "e", "a", "d", "y">>,
       <<"p", "e", "n", "d", "i", "n", "g">>},
      {
       <<"m", "o", "u", "n", "t", ANY, "f", "a", "i", "l">>,
       <<"v", "o", "l", "u", "m", "e", ANY, "e", "r", "r", "o", "r">>,
       <<"s", "t", "o", "r", "a", "g", "e", ANY, "e", "r", "r", "o", "r">>,
       <<"i", "o", "p", "s", ANY, "l", "o", "w">>,
       <<"l", "a", "t", "e", "n", "c", "y", ANY, "h", "i", "g", "h">>},
      {
       <<"o", "u", "t", SP, "o", "f", SP, "m", "e", "m", "o", "r", "y">>,
       <<"o", "o", "m">>,
       <<"o", "o", "m", "k", "i", "l", "l", "e", "d">>,
       <<"m", "e", "m", "o", "r", "y", SP, "l", "i", "m", "i", "t">>},
      {
       <<"c", "o", "n", "n", "e", "c", "t", "i", "o", "n", SP, "r", "e", "f", "u", "s", "e", "d">>,
       <<"c", "o", "n", "n", "e", "c", "t", "i", "o", "n", SP, "t", "i", "m", "e", "o", "u", "t">>,
       <<"p", "e", "r", "m", "i", "s", "s", "i", "o", "n", SP, "d", "e", "n", "i", "e", "d">>}>>

\* error_keywords of level1_extract_critical_content
error_keywords ==
    <<<<"e", "r", "r", "o", "r">>,
      <<"f", "a", "i", "l", "e", "d">>,
      <<"f", "a", "t", "a", "l">>,
      <<"c", "r", "i", "t", "i", "c", "a", "l">>,
      <<"e", "x", "c", "e", "p", "t", "i", "o", "n">>,
      <<"t", "r", "a", "c", "e", "b", "a", "c", "k">>,
      <<"c", "r", "a", "s", "h">>,
      <<"t", "i", "m", "e", "o", "u", "t">>,
      <<"d", "e", "n", "i", "e", "d">>,
      <<"o", "o", "m">>,
      <<"n", "o", "t", "r", "e", "a", "d", "y">>,
      <<"p", "a", "n", "i", "c">>,
      <<"a", "b", "o", "r", "t">>>>

\* priority_patterns of level2_deduplicate_and_prioritize: <<alternatives, weight>>
priority_patterns ==
    <<<<{
         <<"c", "r", "i", "t", "i", "c", "a", "l">>,
         <<"f", "a", "t", "a", "l">>,
         <<"p", "a", "n", "i", "c">>,
         <<"a", "b", "o", "r", "t">>}, 10>>,
      <<{
         <<"e", "r", "r", "o", "r">>,
         <<"e", "x", "c", "e", "p", "t", "i", "o", "n">>,
         <<"t", "r", "a", "c", "e", "b", "a", "c", "k">>}, 7>>,
      <<{
         <<"f", "a", "i", "l", "e", "d">>,
         <<"f", "a", "i", "l", "u", "r", "e">>,
         <<"t", "i", "m", "e", "o", "u", "t">>,
         <<"c", "r", "a", "s", "h", "e", "d">>,
         <<"c", "r", "a", "s", "h">>}, 5>>,
      <<{
         <<"w", "a", "r", "n", "i", "n", "g">>,
         <<"w", "a", "r", "n">>}, 3>>>>

(***************************************************************************)
(* Level 1: critical lines with their context windows.                     *)
(***************************************************************************)
\* is_critical of level1_extract_critical_content for one line
IsCritical(line, patterns) ==
    \/ \E p \in 1..Len(patterns) : ReSearch(patterns[p], line)
    \/ \E line_lower \in {Lower(line)} :
           \E w \in 1..Len(error_keywords) : Contains(line_lower, error_keywords[w])

\* a window that ends one line after the critical line
ContextWindowOneAfter(lines, i) ==
    LET start == Max(0, i - ContextBefore)
        end == Min(Len(lines), i + ContextAfter - 1)
    IN  Join(SubSeq(lines, start + 1, end), <<NL>>)

\* lines[start:end] joined with newlines, for the 0-based line index i
ContextWindow(lines, i) ==
    LET start == Max(0, i - ContextBefore)
        end == Min(Len(lines), i + ContextAfter)
    IN  Join(SubSeq(lines, start + 1, end), <<NL>>)

RECURSIVE Level1From(_, _, _)
Level1From(lines, patterns, i) ==
    IF i >= Len(lines) THEN <<>>
    ELSE (IF IsCritical(lines[i + 1], patterns)
          THEN <<(<<i, ContextWindow(lines, i)>>)>>
          ELSE <<>>) \o Level1From(lines, patterns, i + 1)

\* level1_extract_critical_content(lines, semantic_patterns): tuples <<i, context>>
level1_extract_critical_content(lines, patterns) == Level1From(lines, patterns, 0)

(***************************************************************************)
(* Level 2: deduplicate by content prefix, score, sort, keep the top 20.   *)
(***************************************************************************)
RECURSIVE ScoreFrom(_, _)
\* the sum of the weights of the priority patterns p.. found in content
ScoreFrom(content, p) ==
    IF p > Len(priority_patterns) THEN 0
    ELSE (IF ReSearch(priority_patterns[p][1], content)
          THEN priority_patterns[p][2] ELSE 0) + ScoreFrom(content, p + 1)

RECURSIVE ScoreFirstMatchFrom(_, _)
\* a score that stops at the first priority pattern found
ScoreFirstMatchFrom(content, p) ==
    IF p > Len(priority_patterns) THEN 0
    ELSE IF ReSearch(priority_patterns[p][1], content) THEN priority_patterns[p][2]
    ELSE ScoreFirstMatchFrom(content, p + 1)

ScoreFirstMatch(content) == ScoreFirstMatchFrom(content, 1)

Score(content) == ScoreFrom(content, 1)

\* a key that keeps the surrounding whitespace
ContentHashUntrimmed(content) == PyPrefix(content, ContentHashLen)

\* content.strip()[:200]
ContentHash(content) == PyPrefix(Strip(content), ContentHashLen)

RECURSIVE ScoredFrom(_, _, _)
\* the loop over critical_lines: scored_lines as tuples <<score, idx, content>>
ScoredFrom(crit, k, seen_content) ==
    IF k > Len(crit) THEN <<>>
    ELSE LET content == crit[k][2]
             h == ContentHash(content)
         IN  IF h \in seen_content THEN ScoredFrom(crit, k + 1, seen_content)
             ELSE <<(<<Score(content), crit[k][1], content>>)>>
                      \o ScoredFrom(crit, k + 1, seen_content \cup {h})

\* the sort key (-score, idx): x sorts strictly before y
KeyLess(x, y) == x[1] > y[1] \/ (x[1] = y[1] /\ x[2] < y[2])

\* x put into the sorted list xs after every element that does not sort after it
InsertScored(xs, x) ==
    LET n == Cardinality({k \in 1..Len(xs) : ~KeyLess(x, xs[k])})
    IN  SubSeq(xs, 1, n) \o <<x>> \o SubSeq(xs, n + 1, Len(xs))

\* the list left in the order of the loop
Unsorted(xs) == xs

RECURSIVE SortScored(_)
\* list.sort(key=...): a stable sort
SortScored(xs) ==
    IF xs = <<>> THEN <<>>
    ELSE InsertScored(SortScored(SubSeq(xs, 1, Len(xs) - 1)), xs[Len(xs)])

\* level2_deduplicate_and_prioritize(critical_lines)
level2_deduplicate_and_prioritize(crit) ==
    IF crit = <<>> THEN <<>>
    ELSE LET sorted == SortScored(ScoredFrom(crit, 1, {}))
             top == PyPrefix(sorted, TopContexts)
         IN  [k \in 1..Len(top) |-> top[k][3]]

(***************************************************************************)
(* Level 3: unique long lines, then the head/tail splice.                  *)
(***************************************************************************)
CompressedMarker ==
    <<NL, ".", ".", ".", " ", "[", "c", "o", "m", "p", "r", "e", "s", "s", "e", "d",
      "]", " ", ".", ".", ".", NL>>

\* all lines of all contexts, in encounter order
RECURSIVE FlattenLines(_)
FlattenLines(content_list) ==
    IF content_list = <<>> THEN <<>>
    ELSE Split(content_list[1]) \o FlattenLines(Tail(content_list))

RECURSIVE UniqueFrom(_, _, _)
\* the loop that fills unique_lines
UniqueFrom(lines, k, seen_lines) ==
    IF k > Len(lines) THEN <<>>
    ELSE LET line_stripped == Strip(lines[k])
             line_hash == PyPrefix(Lower(line_stripped), LineHashLen)
         IN  IF Len(line_stripped) > MinLineLen /\ line_hash \notin seen_lines
             THEN <<line_stripped>> \o UniqueFrom(lines, k + 1, seen_lines \cup {line_hash})
             ELSE UniqueFrom(lines, k + 1, seen_lines)

\* the long lines of all contexts, trimmed, repeated ones included
LongLines(content_list) ==
    LET lines == FlattenLines(content_list)
    IN  SelectSeq([k \in 1..Len(lines) |-> Strip(lines[k])],
                  LAMBDA l : Len(l) > MinLineLen)

\* unique_lines of level3_compress_and_summarize
UniqueLines(content_list) == UniqueFrom(FlattenLines(content_list), 1, {})

\* first_part + marker + last_part
Splice(joined, max_len) ==
    PyPrefix(joined, TruncMul(max_len, 6, 10))
        \o CompressedMarker
        \o PySuffix(joined, TruncMul(max_len, 4, 10))

\* level3_compress_and_summarize(content_list, max_length)
level3_compress_and_summarize(content_list, max_len) ==
    IF content_list = <<>> THEN <<>>
    ELSE LET joined == Join(UniqueLines(content_list), <<NL>>)
         IN  IF Len(joined) > max_len THEN Splice(joined, max_len) ELSE joined

(***************************************************************************)
(* Level 4: drop noise lines, stop at the target, cap the lines, truncate. *)
(***************************************************************************)
\* a marker of one dot
SingleDot == <<".">>

Ellipsis == <<".", ".", ".">>

\* r'^\d{4}-\d{2}-\d{2}'
StartsWithDate(s) ==
    /\ Len(s) >= 10
    /\ \A k \in {1, 2, 3, 4, 6, 7, 9, 10} : s[k] \in Digits
    /\ s[5] = "-" /\ s[8] = "-"

\* r'^DEBUG\s*:'
StartsWithDebug(s) ==
    /\ StartsWith(s, <<"D", "E", "B", "U", "G">>)
    /\ \E m \in 6..Len(s) :
        /\ s[m] = ":"
        /\ \A q \in 6..(m - 1) : s[q] \in WhiteSpace

\* any of noise_patterns matches (re.match) the stripped line
IsNoise(s) ==
    \/ \A k \in 1..Len(s) : s[k] \in WhiteSpace          \* r'^\s*$'
    \/ StartsWithDate(s)
    \/ StartsWithDebug(s)
    \/ Strip(s) = <<".">>                                 \* r'^\s*\.\s*$'

RECURSIVE OptimizedFrom(_, _, _, _)
\* the loop over lines: optimized_lines when the loop ends or breaks
OptimizedFrom(lines, k, acc, target) ==
    IF k > Len(lines) THEN acc
    ELSE LET line_stripped == Strip(lines[k])
         IN  IF line_stripped = <<>> THEN OptimizedFrom(lines, k + 1, acc, target)
             ELSE LET acc2 == IF IsNoise(line_stripped) THEN acc
                              ELSE Append(acc, line_stripped)
                  IN  IF Len(Join(acc2, <<NL>>)) >= target THEN acc2
                      ELSE OptimizedFrom(lines, k + 1, acc2, target)

\* a final stage that never cuts
TruncateNoCut(joined, target) == joined

\* result[:target_chars] + '...' when the joined lines are still too long
Truncate(joined, target) ==
    IF Len(joined) > target
    THEN PyPrefix(joined, target) \o Ellipsis
    ELSE joined

\* a level 4 that filters and cuts a text that is already within the target
level4_without_early_return(content, target) ==
    LET optimized_lines == OptimizedFrom(Split(content), 1, <<>>, target)
        limited_lines == PyPrefix(optimized_lines, LineCap)
    IN  Truncate(Join(limited_lines, <<NL>>), target)

\* a level 4 that returns every line the loop has kept
level4_without_line_cap(content, target) ==
    IF Len(content) <= target THEN content
    ELSE Truncate(Join(OptimizedFrom(Split(content), 1, <<>>, target), <<NL>>), target)

\* level4_final_optimization(content, target_chars)
level4_final_optimization(content, target) ==
    IF Len(content) <= target THEN content
    ELSE LET optimized_lines == OptimizedFrom(Split(content), 1, <<>>, target)
             limited_lines == PyPrefix(optimized_lines, LineCap)
         IN  Truncate(Join(limited_lines, <<NL>>), target)

(***************************************************************************)
(* The driver multilevel_chunk_logs, one loop iteration per step.          *)
(***************************************************************************)
NA == <<"N", "/", "A">>
Unknown == <<"u", "n", "k", "n", "o", "w", "n">>
Nil == "nil"

\* field values that are not strings: None and a non-zero int
NoneValue == <<"None">>
IntValue == <<"int">>
NotStr == {NoneValue, IntValue}

\* str(value), as an f-string formats it
Str(v) == IF v = NoneValue THEN <<"N", "o", "n", "e">> ELSE v

\* log.get(key, default)
Get(log, key, default) == IF key \in DOMAIN log THEN log[key] ELSE default

\* a block without its header line
BlockWithoutHeader(filename, body) == body

\* f"=== {filename} ===\n{optimized}"
Block(filename, body) ==
    <<"=", "=", "=", " ">> \o filename \o <<" ", "=", "=", "=">> \o <<NL>> \o body

\* a loop that visits one record more
VisitedOneMore(ls, n) == PyPrefix(ls, n + 1)

\* logs[:max_logs], the records the loop visits
Visited(ls, n) == PyPrefix(ls, n)

\* a test that measures the content without trimming it
IsSkippedUntrimmed(content) ==
    \/ content = <<>>
    \/ content = NoneValue
    \/ content \notin NotStr /\ Len(content) < MinRecordLen

\* not content or len(content.strip()) < 10
IsSkipped(content) ==
    \/ content = <<>>
    \/ content = NoneValue
    \/ content \notin NotStr /\ Len(Strip(content)) < MinRecordLen

\* critical_lines after level 1 and the fallback for a record without critical line
CriticalOrFallback(content, budget) ==
    LET lines == Split(content)
        found == level1_extract_critical_content(lines, semantic_error_patterns)
    IN  IF found # <<>> THEN found
        ELSE IF Len(content) > budget * 2
             THEN <<(<<0, PyPrefix(content, budget)>>),
                    (<<Len(lines), PySuffix(content, budget)>>)>>
             ELSE <<(<<0, content>>)>>

\* prioritized_content after level 2 and its fallback
PrioritizedOrFallback(crit, content, budget) ==
    LET p == level2_deduplicate_and_prioritize(crit)
    IN  IF p # <<>> THEN p ELSE <<PyPrefix(content, budget * 2)>>

\* if not logs: return 'N/A'
ReturnEmpty ==
    /\ pc = "loop"
    /\ logs = <<>>
    /\ pc' = "done"
    /\ result' = NA
    /\ UNCHANGED <<extras, locals, history, args, pos, stages, chunked_logs, chunk_src>>

\* a skip that does not move on to the next record
SkipRecordWithoutAdvance ==
    /\ pc = "loop"
    /\ logs # <<>>
    /\ pos < Len(Visited(logs, max_logs))
    /\ IsSkipped(Get(logs[pos + 1], "content", <<>>))
    /\ critical_lines' = <<>>
    /\ prioritized_content' = <<>>
    /\ compressed' = <<>>
    /\ optimized' = <<>>
    /\ UNCHANGED <<extras, locals, history, args, pos, max_length, target_chars, chunked_logs,
                   chunk_src, pc, result>>

\* the loop body for a record that is skipped (continue)
SkipRecord ==
    /\ pc = "loop"
    /\ logs # <<>>
    /\ pos < Len(Visited(logs, max_logs))
    /\ IsSkipped(Get(logs[pos + 1], "content", <<>>))
    /\ pos' = pos + 1
    /\ critical_lines' = <<>>
    /\ prioritized_content' = <<>>
    /\ compressed' = <<>>
    /\ optimized' = <<>>
    /\ UNCHANGED <<extras, locals, history, args, max_length, target_chars, chunked_logs, chunk_src, pc, result>>

\* the loop body for a record that goes through the four levels
ProcessRecord ==
    /\ pc = "loop"
    /\ logs # <<>>
    /\ pos < Len(Visited(logs, max_logs))
    /\ LET log == logs[pos + 1]
           filename == Get(log, "filename", Unknown)
           content == Get(log, "content", <<>>)
       IN  /\ ~IsSkipped(content)
           /\ content \notin NotStr
           /\ \E crit \in {CriticalOrFallback(content, max_chars_per_log)} :
              \E prio \in {PrioritizedOrFallback(crit, content, max_chars_per_log)} :
              \E comp \in {level3_compress_and_summarize(
                                prio, TruncMul(max_chars_per_log, 3, 2))} :
              \E opt \in {level4_final_optimization(comp, max_chars_per_log)} :
                /\ critical_lines' = crit
                /\ prioritized_content' = prio
                /\ max_length' = TruncMul(max_chars_per_log, 3, 2)
                /\ compressed' = comp
                /\ target_chars' = max_chars_per_log
                /\ optimized' = opt
                /\ chunked_logs' = IF opt # <<>>
                                   THEN Append(chunked_logs, Block(Str(filename), opt))
                                   ELSE chunked_logs
                /\ chunk_src' = IF opt # <<>> THEN Append(chunk_src, pos + 1)
                                ELSE chunk_src
    /\ pos' = pos + 1
    /\ UNCHANGED <<extras, locals, history, args, pc, result>>

\* content.strip() on a content that is true and not a string: AttributeError
RaiseError ==
    /\ pc = "loop"
    /\ logs # <<>>
    /\ pos < Len(Visited(logs, max_logs))
    /\ Get(logs[pos + 1], "content", <<>>) \in NotStr \ {NoneValue}
    /\ pc' = "raised"
    /\ UNCHANGED <<extras, locals, history, args, pos, stages, chunked_logs, chunk_src, result>>

\* a return that joins the blocks even when there is none
ReturnJoinAlways ==
    /\ pc = "loop"
    /\ logs # <<>>
    /\ pos = Len(Visited(logs, max_logs))
    /\ pc' = "done"
    /\ result' = Join(chunked_logs, <<NL, NL>>)
    /\ UNCHANGED <<extras, locals, history, args, pos, stages, chunked_logs, chunk_src>>

\* return '\n\n'.join(chunked_logs) if chunked_logs else 'N/A'
Return ==
    /\ pc = "loop"
    /\ logs # <<>>
    /\ pos = Len(Visited(logs, max_logs))
    /\ pc' = "done"
    /\ result' = IF chunked_logs # <<>> THEN Join(chunked_logs, <<NL, NL>>) ELSE NA
    /\ UNCHANGED <<extras, locals, history, args, pos, stages, chunked_logs, chunk_src>>

(***************************************************************************)
(* The calls that are explored.  A text is empty or is up to MaxLines lines *)
(* of LinePool joined with newlines; a call passes up to MaxLogs records   *)
(* holding MaxLines lines in all, and one of the budget pairs.             *)
(***************************************************************************)
MaxLines == 3
MaxLogs == 2

LinePool ==
    { <<"I", "N", "F", "O", " ", "s", "t", "a", "r", "t">>,
      <<"E", "R", "R", "O", "R", " ", "d", "i", "s", "k", " ", "f", "u", "l", "l">>,
      <<"I", "N", "F", "O", " ", "d", "o", "n", "e">>,
      <<"E", "R", "R", "O", "R", " ", "x">>,
      <<"a", "b", "c", "d", "e", "f", "g", "h", "i", "j", "k", "l", "m",
        "n", "o", "p", "q", "r", "s", "t", "u", "v", "w", "x", "y", "z">> }

FileNames == { <<"f">> }

\* <<max_chars_per_log, max_logs>>
Budgets ==
    { <<200, 1>>, <<16, 2>>, <<0, 1>>, <<-1, 1>>, <<16, 0>>, <<16, -1>> }

\* the texts of n lines; the empty text counts as one line
TextsOf(n) ==
    { Join(ls, <<NL>>) : ls \in [1..n -> LinePool] } \cup (IF n = 1 THEN { <<>> } ELSE {})

RecordsOf(n) ==
    { [filename |-> f, content |-> t] : f \in FileNames, t \in TextsOf(n) }

RECURSIVE ListsOf(_, _)
\* the lists of k records holding at most n lines in all
ListsOf(k, n) ==
    IF k = 0 THEN { <<>> }
    ELSE UNION { { <<r>> \o rest : r \in RecordsOf(m), rest \in ListsOf(k - 1, n - m) } :
                 m \in 1..(n - (k - 1)) }

LogLists == UNION { ListsOf(k, MaxLines) : k \in 0..MaxLogs }

Init ==
    /\ logs \in LogLists
    /\ \E b \in Budgets : max_chars_per_log = b[1] /\ max_logs = b[2]
    /\ pos = 0
    /\ critical_lines = <<>>
    /\ prioritized_content = <<>>
    /\ max_length = 0
    /\ compressed = <<>>
    /\ target_chars = 0
    /\ optimized = <<>>
    /\ chunked_logs = <<>>
    /\ chunk_src = <<>>
    /\ pc = "loop"
    /\ result = Nil
    /\ history = <<>>
    /\ ExtrasIdle
    /\ scored_lines = <<>>
    /\ unique_lines = <<>>

Next == ReturnEmpty \/ SkipRecord \/ ProcessRecord \/ Return

Spec == Init /\ [][Next]_vars

(***************************************************************************)
(* level4_final_optimization called on its own.  The content is up to      *)
(* MaxL4Lines lines of L4LinePool joined with newlines, the target any     *)
(* integer from -1 to MaxTarget.                                           *)
(***************************************************************************)
MaxL4Lines == 3
MaxTarget == 12

L4LinePool ==
    { <<>>,
      <<"a", "b">>,
      <<" ", "c", "d", " ">>,
      <<".">>,
      <<"2", "0", "2", "4", "-", "0", "1", "-", "0", "1">>,
      <<"2", "0", "2", "4", "-", "0", "1", "-", "0", "1", " ", "u", "p">>,
      <<"D", "E", "B", "U", "G", ":", " ", "x">> }

L4Texts ==
    UNION { { Join(ls, <<NL>>) : ls \in [1..n -> L4LinePool] } : n \in 1..MaxL4Lines }

InitLevel4 ==
    /\ compressed \in L4Texts
    /\ target_chars \in -1..MaxTarget
    /\ optimized = <<>>
    /\ pc = "level4"
    /\ logs = <<>>
    /\ max_chars_per_log = 0
    /\ max_logs = 0
    /\ pos = 0
    /\ critical_lines = <<>>
    /\ prioritized_content = <<>>
    /\ max_length = 0
    /\ chunked_logs = <<>>
    /\ chunk_src = <<>>
    /\ result = Nil
    /\ history = <<>>
    /\ ExtrasIdle
    /\ scored_lines = <<>>
    /\ unique_lines = <<>>

\* optimized = level4_final_optimization(compressed, target_chars)
Level4Call ==
    /\ pc = "level4"
    /\ optimized' = level4_final_optimization(compressed, target_chars)
    /\ pc' = "done"
    /\ UNCHANGED <<extras, locals, history, args, pos, critical_lines, prioritized_content, max_length,
                   compressed, target_chars, chunked_logs, chunk_src, result>>

NextLevel4 == Level4Call

SpecLevel4 == InitLevel4 /\ [][NextLevel4]_vars

(***************************************************************************)
(* level2_deduplicate_and_prioritize called on its own.  critical_lines is *)
(* a list of up to MaxContexts tuples (index, context) with ascending      *)
(* indices and contexts of ContextPool.                                    *)
(***************************************************************************)
MaxContexts == 2

ContextPool ==
    { <<"E", "R", "R", "O", "R", " ", "d", "i", "s", "k", " ", "f", "u", "l", "l">>,
      <<"F", "a", "t", "a", "l", " ", "e", "r", "r", "o", "r", ":", " ", "T", "i", "m", "e", "o", "u", "t">>,
      <<"c", "r", "i", "t", "i", "c", "a", "l", " ", "e", "x", "c", "e", "p", "t", "i", "o", "n", " ", "f", "a", "i", "l", "e", "d", " ", "w", "a", "r", "n", "i", "n", "g">>,
      <<"e", "r", "r", "o", "r", "s", " ", "a", "n", "d", " ", "w", "a", "r", "n", "i", "n", "g", "s">>,
      <<"a", "l", "l", " ", "i", "s", " ", "w", "e", "l", "l">>,
      <<"W", "A", "R", "N", " ", "l", "o", "w", NL, "a", "b", "o", "r", "t", " ", "n", "o", "w">>,
      <<"t", "e", "r", "r", "o", "r", " ", "c", "r", "a", "s", "h", "e", "s">>,
      <<"P", "A", "N", "I", "C", NL, "T", "r", "a", "c", "e", "b", "a", "c", "k", " ", "c", "r", "a", "s", "h", " ", "W", "a", "r", "n">>,
      <<"W", "a", "r", "n", "i", "n", "g">>,
      <<"t", "i", "m", "e", "o", "u", "t", ".", "f", "a", "i", "l", "u", "r", "e">> }

CriticalLists ==
    UNION { { [k \in 1..n |-> <<k - 1, f[k]>>] : f \in [1..n -> ContextPool] } :
            n \in 0..MaxContexts }

InitLevel2 ==
    /\ critical_lines \in CriticalLists
    /\ prioritized_content = <<>>
    /\ scored_lines = <<>>
    /\ unique_lines = <<>>
    /\ pc = "level2"
    /\ logs = <<>>
    /\ max_chars_per_log = 0
    /\ max_logs = 0
    /\ pos = 0
    /\ max_length = 0
    /\ compressed = <<>>
    /\ target_chars = 0
    /\ optimized = <<>>
    /\ chunked_logs = <<>>
    /\ chunk_src = <<>>
    /\ result = Nil
    /\ history = <<>>
    /\ ExtrasIdle

\* prioritized_content = level2_deduplicate_and_prioritize(critical_lines)
Level2Call ==
    /\ pc = "level2"
    /\ scored_lines' = (IF critical_lines = <<>> THEN <<>>
                        ELSE SortScored(ScoredFrom(critical_lines, 1, {})))
    /\ prioritized_content' = level2_deduplicate_and_prioritize(critical_lines)
    /\ pc' = "done"
    /\ UNCHANGED <<extras, unique_lines, history, args, pos, critical_lines, max_length,
                   compressed, target_chars, optimized, chunked_logs, chunk_src, result>>

NextLevel2 == Level2Call

SpecLevel2 == InitLevel2 /\ [][NextLevel2]_vars

(***************************************************************************)
(* level3_compress_and_summarize called on its own.  content_list is a     *)
(* list of contexts that hold up to MaxL3Lines lines of L3LinePool in all  *)
(* (a repeated line in other case and padded, lines of 10 and 11           *)
(* characters, two lines that differ after 100 characters); max_length is  *)
(* one of MaxLengths.                                                      *)
(***************************************************************************)
MaxL3Lines == 2

L3LinePool ==
    { <<"E", "R", "R", "O", "R", " ", "c", "o", "n", "n", "e", "c", "t", "i", "o", "n", " ", "r", "e", "f", "u", "s", "e", "d">>,
      <<" ", " ", "e", "r", "r", "o", "r", " ", "C", "O", "N", "N", "E", "C", "T", "I", "O", "N", " ", "r", "e", "f", "u", "s", "e", "d", " ">>,
      <<"0", "1", "2", "3", "4", "5", "6", "7", "8", "9">>,
      <<"0", "1", "2", "3", "4", "5", "6", "7", "8", "9", "a">>,
      <<"x", "x", "x", "x", "x", "x", "x", "x", "x", "x", "x", "x", "x", "x", "x", "x", "x", "x", "x", "x", "x", "x", "x", "x", "x", "x", "x", "x", "x", "x", "x", "x", "x", "x", "x", "x", "x", "x", "x", "x", "x", "x", "x", "x", "x", "x", "x", "x", "x", "x", "x", "x", "x", "x", "x", "x", "x", "x", "x", "x", "x", "x", "x", "x", "x", "x", "x", "x", "x", "x", "x", "x", "x", "x", "x", "x", "x", "x", "x", "x", "x", "x", "x", "x", "x", "x", "x", "x", "x", "x", "x", "x", "x", "x", "x", "x", "x", "x", "x", "x", "a">>,
      <<"x", "x", "x", "x", "x", "x", "x", "x", "x", "x", "x", "x", "x", "x", "x", "x", "x", "x", "x", "x", "x", "x", "x", "x", "x", "x", "x", "x", "x", "x", "x", "x", "x", "x", "x", "x", "x", "x", "x", "x", "x", "x", "x", "x", "x", "x", "x", "x", "x", "x", "x", "x", "x", "x", "x", "x", "x", "x", "x", "x", "x", "x", "x", "x", "x", "x", "x", "x", "x", "x", "x", "x", "x", "x", "x", "x", "x", "x", "x", "x", "x", "x", "x", "x", "x", "x", "x", "x", "x", "x", "x", "x", "x", "x", "x", "x", "x", "x", "x", "x", "b">> }

MaxLengths == {0, 2, 3, 10, 30, 300}

RECURSIVE ContextLists(_)
\* the lists of contexts that hold n lines in all
ContextLists(n) ==
    IF n = 0 THEN { <<>> }
    ELSE UNION { { <<Join(ls, <<NL>>)>> \o rest :
                     ls \in [1..m -> L3LinePool], rest \in ContextLists(n - m) } :
                 m \in 1..n }

InitLevel3 ==
    /\ prioritized_content \in UNION { ContextLists(n) : n \in 0..MaxL3Lines }
    /\ max_length \in MaxLengths
    /\ compressed = <<>>
    /\ unique_lines = <<>>
    /\ scored_lines = <<>>
    /\ pc = "level3"
    /\ logs = <<>>
    /\ max_chars_per_log = 0
    /\ max_logs = 0
    /\ pos = 0
    /\ critical_lines = <<>>
    /\ target_chars = 0
    /\ optimized = <<>>
    /\ chunked_logs = <<>>
    /\ chunk_src = <<>>
    /\ result = Nil
    /\ history = <<>>
    /\ ExtrasIdle

\* compressed = level3_compress_and_summarize(prioritized_content, max_length)
Level3Call ==
    /\ pc = "level3"
    /\ unique_lines' = (IF prioritized_content = <<>> THEN <<>>
                        ELSE UniqueLines(prioritized_content))
    /\ compressed' = level3_compress_and_summarize(prioritized_content, max_length)
    /\ pc' = "done"
    /\ UNCHANGED <<extras, scored_lines, history, args, pos, critical_lines,
                   prioritized_content, max_length, target_chars, optimized,
                   chunked_logs, chunk_src, result>>

NextLevel3 == Level3Call

SpecLevel3 == InitLevel3 /\ [][NextLevel3]_vars

(***************************************************************************)
(* Level 1 as the driver calls it on the lines of one record.  The text of *)
(* the record is up to MaxL1Lines lines of L1LinePool: a line that matches *)
(* a semantic pattern, two lines that only hold a keyword, a line that is  *)
(* not critical and the empty line.                                        *)
(***************************************************************************)
MaxL1Lines == 5

L1LinePool ==
    { <<"E", "R", "R", "O", "R", " ", "x">>,
      <<"a", "c", "c", "e", "s", "s", " ", "D", "e", "n", "i", "e", "d">>,
      <<"2", " ", "e", "r", "r", "o", "r", "s">>,
      <<"I", "N", "F", "O", " ", "o", "k">>,
      <<>> }

L1Texts ==
    UNION { { Join(ls, <<NL>>) : ls \in [1..n -> L1LinePool] } : n \in 1..MaxL1Lines }

InitLevel1 ==
    /\ logs \in { <<[filename |-> <<"f">>, content |-> t]>> : t \in L1Texts }
    /\ critical_lines = <<>>
    /\ pc = "level1"
    /\ max_chars_per_log = 0
    /\ max_logs = 0
    /\ pos = 0
    /\ prioritized_content = <<>>
    /\ max_length = 0
    /\ compressed = <<>>
    /\ target_chars = 0
    /\ optimized = <<>>
    /\ chunked_logs = <<>>
    /\ chunk_src = <<>>
    /\ result = Nil
    /\ history = <<>>
    /\ ExtrasIdle
    /\ scored_lines = <<>>
    /\ unique_lines = <<>>

\* lines = content.split('\n'); critical_lines = level1_extract_critical_content(...)
Level1Call ==
    /\ pc = "level1"
    /\ critical_lines' = level1_extract_critical_content(
                             Split(Get(logs[1], "content", <<>>)), semantic_error_patterns)
    /\ pc' = "done"
    /\ UNCHANGED <<extras, locals, history, args, pos, prioritized_content, max_length,
                   compressed, target_chars, optimized, chunked_logs, chunk_src, result>>

NextLevel1 == Level1Call

SpecLevel1 == InitLevel1 /\ [][NextLevel1]_vars

(***************************************************************************)
(* Several calls of multilevel_chunk_logs in one process.  A call starts   *)
(* with chunked_logs = [] (its locals are new); the stage values of the    *)
(* call before are left in place, since nothing of them is read before it  *)
(* is assigned.  Each call takes its arguments from CallLogs and           *)
(* CallBudgets; at most MaxCalls calls are made.                           *)
(***************************************************************************)
MaxCalls == 3

CallLogs ==
    { <<>>,
      <<[filename |-> <<"f">>, content |-> <<>>]>>,
      <<[filename |-> <<"f">>,
         content |-> <<"E", "R", "R", "O", "R", " ", "d", "i", "s", "k", " ",
                       "f", "u", "l", "l">>],
        [filename |-> <<"f">>,
         content |-> <<"I", "N", "F", "O", " ", "a", "l", "l", " ", "i", "s", " ",
                       "w", "e", "l", "l">>]>>,
      <<[filename |-> <<"f">>,
         content |-> <<"I", "N", "F", "O", " ", "a", "l", "l", " ", "i", "s", " ",
                       "w", "e", "l", "l">>],
        [filename |-> <<"f">>,
         content |-> <<"E", "R", "R", "O", "R", " ", "d", "i", "s", "k", " ",
                       "f", "u", "l", "l">>]>> }

CallBudgets == { <<200, 2>>, <<200, 1>>, <<12, 2>> }

InitCalls ==
    /\ logs \in CallLogs
    /\ \E b \in CallBudgets : max_chars_per_log = b[1] /\ max_logs = b[2]
    /\ pos = 0
    /\ critical_lines = <<>>
    /\ prioritized_content = <<>>
    /\ max_length = 0
    /\ compressed = <<>>
    /\ target_chars = 0
    /\ optimized = <<>>
    /\ chunked_logs = <<>>
    /\ chunk_src = <<>>
    /\ pc = "loop"
    /\ result = Nil
    /\ history = <<>>
    /\ ExtrasIdle
    /\ scored_lines = <<>>
    /\ unique_lines = <<>>

\* a call whose list of blocks is the one the call before left
CallKeepingBlocks ==
    /\ pc = "done"
    /\ Len(history) < MaxCalls - 1
    /\ history' = Append(history, [logs |-> logs,
                                   max_chars_per_log |-> max_chars_per_log,
                                   max_logs |-> max_logs,
                                   result |-> result])
    /\ logs' \in CallLogs
    /\ \E b \in CallBudgets : max_chars_per_log' = b[1] /\ max_logs' = b[2]
    /\ pos' = 0
    /\ pc' = "loop"
    /\ result' = Nil
    /\ UNCHANGED <<extras, locals, stages, chunked_logs, chunk_src>>

\* the next call of multilevel_chunk_logs: chunked_logs = []
Call ==
    /\ pc = "done"
    /\ Len(history) < MaxCalls - 1
    /\ history' = Append(history, [logs |-> logs,
                                   max_chars_per_log |-> max_chars_per_log,
                                   max_logs |-> max_logs,
                                   result |-> result])
    /\ logs' \in CallLogs
    /\ \E b \in CallBudgets : max_chars_per_log' = b[1] /\ max_logs' = b[2]
    /\ pos' = 0
    /\ chunked_logs' = <<>>
    /\ chunk_src' = <<>>
    /\ pc' = "loop"
    /\ result' = Nil
    /\ UNCHANGED <<extras, locals, stages>>

NextCalls == ReturnEmpty \/ SkipRecord \/ ProcessRecord \/ Return \/ Call

SpecCalls == InitCalls /\ [][NextCalls]_vars

(***************************************************************************)
(* Calls whose records lack a field or hold a field that is not a string.  *)
(* A record has no filename, the filename "f" or the filename None, and no *)
(* content, an empty content, a content with a critical line, the content  *)
(* None or an int content; a call passes up to MaxBadLogs records.         *)
(***************************************************************************)
MaxBadLogs == 2

Absent == <<"absent">>

FilenameValues == { Absent, <<"f">>, NoneValue }

ContentValues ==
    { Absent, <<>>, NoneValue, IntValue,
      <<"E", "R", "R", "O", "R", " ", "d", "i", "s", "k", " ", "f", "u", "l", "l">> }

\* the dict with the fields that are present
MakeRecord(f, c) ==
    IF f = Absent /\ c = Absent THEN <<>>
    ELSE IF f = Absent THEN [content |-> c]
    ELSE IF c = Absent THEN [filename |-> f]
    ELSE [filename |-> f, content |-> c]

AnyRecords == { MakeRecord(f, c) : f \in FilenameValues, c \in ContentValues }

RecordLists == UNION { [1..n -> AnyRecords] : n \in 0..MaxBadLogs }

RecordBudgets == { <<200, 1>>, <<200, 2>> }

InitRecords ==
    /\ logs \in RecordLists
    /\ \E b \in RecordBudgets : max_chars_per_log = b[1] /\ max_logs = b[2]
    /\ pos = 0
    /\ critical_lines = <<>>
    /\ prioritized_content = <<>>
    /\ max_length = 0
    /\ compressed = <<>>
    /\ target_chars = 0
    /\ optimized = <<>>
    /\ chunked_logs = <<>>
    /\ chunk_src = <<>>
    /\ pc = "loop"
    /\ result = Nil
    /\ history = <<>>
    /\ ExtrasIdle
    /\ scored_lines = <<>>
    /\ unique_lines = <<>>

NextRecords == ReturnEmpty \/ SkipRecord \/ ProcessRecord \/ RaiseError \/ Return

SpecRecords == InitRecords /\ [][NextRecords]_vars

(***************************************************************************)
(* Properties of the driver, checked under Spec.                           *)
(***************************************************************************)
\* the record at 1-based position k of logs and its fields as the loop reads them
FilenameOf(k) == Get(logs[k], "filename", Unknown)
ContentOf(k) == Get(logs[k], "content", <<>>)

\* the header line of a block with its newline, plus the separator between blocks
HeaderOverhead ==
    LET hs == { Len(Block(FilenameOf(k), <<>>)) + Len(<<NL, NL>>) : k \in 1..Len(logs) }
    IN  IF hs = {} THEN 0 ELSE CHOOSE h \in hs : \A g \in hs : g <= h

MarkerOverhead == Len(Ellipsis)

BudgetBound == max_logs * (max_chars_per_log + HeaderOverhead + MarkerOverhead)

\* C1 as stated: for every integer budget pair the returned string is no longer
\* than max_records x (max_chars_per_record + header_overhead + marker_overhead).
C1_BudgetAllIntegers == pc = "done" => Len(result) <= BudgetBound

\* C1 amended: the bound holds for every call with max_records >= 1 and
\* max_chars_per_record >= 0.
C1_BudgetInvariant ==
    (pc = "done" /\ max_logs >= 1 /\ max_chars_per_log >= 0) => Len(result) <= BudgetBound

\* two blocks were returned and the last one was cut and carries the marker
C1_Witness ==
    /\ pc = "done"
    /\ max_logs = 2
    /\ max_chars_per_log > 0
    /\ Len(chunked_logs) = 2
    /\ Len(optimized) = max_chars_per_log + Len(Ellipsis)
    /\ EndsWith(result, Ellipsis)

\* the record visited last went through the four levels, so that the stage
\* variables are its stage values
Processed == pos >= 1 /\ pos <= Len(logs) /\ ~IsSkipped(ContentOf(pos))

\* the lines of a text that level 1 classifies as critical, in order
CriticalLinesOf(content) ==
    LET lines == Split(content)
    IN  SelectSeq(lines, LAMBDA l : IsCritical(l, semantic_error_patterns))

RECURSIVE TotalLen(_)
TotalLen(lines) == IF lines = <<>> THEN 0 ELSE Len(lines[1]) + TotalLen(Tail(lines))

\* line l is a line of body, up to the trimming and the case-insensitive
\* 100-character key that level 3 uses to deduplicate
KeptIn(l, body) ==
    LET key == PyPrefix(Lower(Strip(l)), LineHashLen)
        kept == Split(body)
    IN  \E m \in 1..Len(kept) : PyPrefix(Lower(Strip(kept[m])), LineHashLen) = key

\* C3 as stated: when the critical lines of a record are together shorter than
\* max_chars_per_record, each of them is in the record's block (possibly as the
\* earlier line it duplicates).
C3_NonLossUnderSlack ==
    (Processed /\ TotalLen(CriticalLinesOf(ContentOf(pos))) < max_chars_per_log) =>
        \A k \in 1..Len(CriticalLinesOf(ContentOf(pos))) :
            KeptIn(CriticalLinesOf(ContentOf(pos))[k], optimized)

\* one of the four stages gave an empty result for the record visited last
StageEmpty ==
    \/ level1_extract_critical_content(Split(ContentOf(pos)), semantic_error_patterns) = <<>>
    \/ level2_deduplicate_and_prioritize(critical_lines) = <<>>
    \/ compressed = <<>>
    \/ optimized = <<>>

\* the record visited last has a block, the last one appended
HasBlock == chunk_src # <<>> /\ chunk_src[Len(chunk_src)] = pos

\* C4 as stated: a record with non-empty text for which a stage came out empty
\* still has a block, and the block holds the original text cut to
\* max_chars_per_record (stated for the positive budgets).
C4_FallbackOnEmptyStage ==
    (Processed /\ max_chars_per_log > 0 /\ StageEmpty) =>
        /\ HasBlock
        /\ Contains(chunked_logs[Len(chunked_logs)],
                    PyPrefix(ContentOf(pos), max_chars_per_log))

\* the blocks come from the first max_logs records, in the order of the input,
\* number at most max_logs, and the returned string is their join in that order
BlocksInOrder ==
    /\ Len(chunked_logs) = Len(chunk_src)
    /\ \A k \in 1..Len(chunk_src) :
        /\ k <= max_logs
        /\ chunk_src[k] \in 1..Len(logs)
        /\ chunk_src[k] <= max_logs
        /\ StartsWith(chunked_logs[k], Block(FilenameOf(chunk_src[k]), <<>>))
        /\ \A j \in 1..(k - 1) : chunk_src[j] < chunk_src[k]
    /\ (pc = "done" /\ chunked_logs # <<>>) => result = Join(chunked_logs, <<NL, NL>>)

\* C5 as stated: for every record list and every budget pair the blocks come only
\* from the first max_records records, in input order, and number at most
\* max_records.
C5_OrderAllBudgets == BlocksInOrder

\* C5 amended: the same for every call with max_records >= 0.
C5_OrderPreservation == max_logs >= 0 => BlocksInOrder

\* the first record was skipped, the second gave the only block
C5_Witness ==
    /\ pc = "done"
    /\ max_logs = 2
    /\ Len(logs) = 2
    /\ ContentOf(1) # <<>>
    /\ chunk_src = <<2>>

\* the body the four levels give for a record's content under a budget
BodyOf(content, budget) ==
    LET crit == CriticalOrFallback(content, budget)
        prio == PrioritizedOrFallback(crit, content, budget)
        comp == level3_compress_and_summarize(prio, TruncMul(budget, 3, 2))
    IN  level4_final_optimization(comp, budget)

\* no record of logs[:max_logs] yields a non-empty block
NoRecordYieldsBlock ==
    \A k \in 1..Len(Visited(logs, max_logs)) :
        IsSkipped(ContentOf(k)) \/ BodyOf(ContentOf(k), max_chars_per_log) = <<>>

\* C7: a call that has returned returned exactly "N/A" if the record list is empty
\* or no record among the first max_records yields a non-empty block.
C7_EmptyInputSentinel ==
    (pc = "done" /\ (logs = <<>> \/ NoRecordYieldsBlock)) => result = NA

\* the call with a single record of empty text has returned "N/A"
C7_Witness ==
    /\ pc = "done"
    /\ Len(logs) = 1
    /\ ContentOf(1) = <<>>
    /\ max_logs >= 1
    /\ pos = 1
    /\ result = NA

\* body starts with a head portion of the text whole and, after at least one more character,
\* holds a tail portion of it
HeadTailSplice(body, whole) ==
    \E h \in 1..Len(whole) : \E t \in 1..Len(whole) :
        /\ PyPrefix(body, h) = PyPrefix(whole, h)
        /\ \E i \in (h + 2)..(Len(body) - t + 1) :
              SubSeq(body, i, i + t - 1) = PySuffix(whole, t)

\* C8: a record without critical line whose text is longer than twice the budget
\* gets a block whose body is a head portion of the text, a marker and a tail
\* portion of the text, of at most 1.5 x the budget plus the "..." marker.
C8_HeadAndTailSurvive ==
    (/\ Processed
     /\ max_chars_per_log > 0
     /\ level1_extract_critical_content(Split(ContentOf(pos)),
                                        semantic_error_patterns) = <<>>
     /\ Len(ContentOf(pos)) > max_chars_per_log * 2) =>
        /\ HasBlock
        /\ HeadTailSplice(optimized, ContentOf(pos))
        /\ Len(optimized) <= TruncMul(max_chars_per_log, 3, 2) + Len(Ellipsis)

\* the joined unique lines of the first p fragments of the prioritized list: a
\* prefix of the text that level 3 cuts
JoinedUpTo(p) == Join(UniqueLines(PyPrefix(prioritized_content, p)), <<NL>>)

\* the positions of the joined text that hold the lines of fragment p
SpanOf(p) ==
    LET before == Len(JoinedUpTo(p - 1))
    IN  (IF before = 0 THEN 1 ELSE before + 2)..Len(JoinedUpTo(p))

\* the positions of the joined text that level 3 leaves out: those after the
\* first int(max_length * 0.6) and before the last int(max_length * 0.4)
CutPositions ==
    LET n == Len(JoinedUpTo(Len(prioritized_content)))
        tail == TruncMul(max_length, 2, 5)
    IN  IF n <= max_length \/ tail <= 0 THEN {}
        ELSE (TruncMul(max_length, 3, 5) + 1)..(n - tail)

\* C9: when level 3 cuts the record's joined text, a fragment of the prioritized
\* list that loses text is followed by no fragment that keeps text.
C9_LowestPriorityDroppedFirst ==
    (Processed /\ max_length > 0) =>
        \A p \in 1..Len(prioritized_content) : \A q \in (p + 1)..Len(prioritized_content) :
            (SpanOf(p) \cap CutPositions # {}) => (SpanOf(q) \ CutPositions = {})

\* sub occurs in s at position i
OccursAt(s, sub, i) ==
    i >= 1 /\ i + Len(sub) - 1 <= Len(s) /\ SubSeq(s, i, i + Len(sub) - 1) = sub

ExampleStart == <<"I", "N", "F", "O", " ", "s", "t", "a", "r", "t">>
ExampleError == <<"E", "R", "R", "O", "R", " ", "d", "i", "s", "k", " ", "f", "u", "l", "l">>
ExampleDone == <<"I", "N", "F", "O", " ", "d", "o", "n", "e">>

\* C10: the call on the single record "INFO start" / "ERROR disk full" /
\* "INFO done" with budgets 200 and 1 returns the record's header followed by a
\* body holding "INFO start", then "ERROR disk full", then "INFO done", in at most
\* 210 characters.
C10_ContextSurvives ==
    (/\ pc = "done"
     /\ Len(logs) = 1
     /\ ContentOf(1) = Join(<<ExampleStart, ExampleError, ExampleDone>>, <<NL>>)
     /\ max_chars_per_log = 200
     /\ max_logs = 1) =>
        /\ StartsWith(result, Block(FilenameOf(1), <<>>))
        /\ Len(result) <= 210
        /\ \E i \in 1..Len(result) : \E j \in (i + 1)..Len(result) :
           \E k \in (j + 1)..Len(result) :
              /\ OccursAt(result, ExampleStart, i)
              /\ OccursAt(result, ExampleError, j)
              /\ OccursAt(result, ExampleDone, k)

\* the header line '=== <name> ==='
HeaderLine(name) == <<"=", "=", "=", " ">> \o name \o <<" ", "=", "=", "=">>

\* the reduced text of each record of logs[:max_logs]; empty for a skipped record
ReducedTexts ==
    [k \in 1..Len(Visited(logs, max_logs)) |->
        IF IsSkipped(ContentOf(k)) THEN <<>>
        ELSE BodyOf(ContentOf(k), max_chars_per_log)]

\* C13: the returned string is exactly "N/A" when no record survives; otherwise it
\* is the blocks of the surviving records, one blank line between two blocks, each
\* block the header line '=== <name> ===', a newline and the record's non-empty
\* reduced text.
C13_OutputStructure ==
    pc = "done" =>
        \A reduced \in {ReducedTexts} :
            /\ (result = NA) <=> (\A k \in 1..Len(reduced) : reduced[k] = <<>>)
            /\ \A k \in 1..Len(reduced) :
                  (\E j \in 1..Len(chunk_src) : chunk_src[j] = k) <=> (reduced[k] # <<>>)
            /\ chunk_src # <<>> =>
                  result = Join([j \in 1..Len(chunk_src) |->
                                    HeaderLine(FilenameOf(chunk_src[j])) \o <<NL>>
                                        \o reduced[chunk_src[j]]],
                                <<NL, NL>>)

\* the block the claim describes for the record at position k of logs
ExpectedBlock(k) ==
    HeaderLine(FilenameOf(k)) \o <<NL>> \o BodyOf(ContentOf(k), max_chars_per_log)

\* a call has returned two blocks
C13_Witness ==
    /\ pc = "done"
    /\ Len(chunk_src) = 2
    /\ result # NA
    /\ result = ExpectedBlock(1) \o <<NL, NL>> \o ExpectedBlock(2)

(***************************************************************************)
(* Properties of level4_final_optimization, checked under SpecLevel4.      *)
(***************************************************************************)
\* C2: for target_chars >= 0 the result of level 4 is at most target_chars plus
\* the marker long, and it is longer than target_chars only when the content was
\* over the target and the result is target_chars characters followed by '...'.
C2_PerRecordBound ==
    target_chars >= 0 =>
        /\ Len(optimized) <= target_chars + Len(Ellipsis)
        /\ Len(optimized) > target_chars =>
              /\ Len(compressed) > target_chars
              /\ Len(optimized) = target_chars + Len(Ellipsis)
              /\ EndsWith(optimized, Ellipsis)

\* level 4 returned a cut result that carries the marker
C2_Witness ==
    /\ pc = "done"
    /\ target_chars > 0
    /\ Len(compressed) > target_chars
    /\ Len(optimized) = target_chars + Len(Ellipsis)
    /\ EndsWith(optimized, Ellipsis)

\* C11: a text no longer than the target is returned unchanged by
\* level4_final_optimization: no line is removed, no marker is added.
C11_IdentityWithinBudget ==
    (pc = "done" /\ Len(compressed) <= target_chars) => optimized = compressed

\* a text within the target that holds a noise line has been returned unchanged
C11_Witness ==
    /\ pc = "done"
    /\ Len(compressed) <= target_chars
    /\ Len(Split(compressed)) >= 2
    /\ \E k \in 1..Len(Split(compressed)) : IsNoise(Strip(Split(compressed)[k]))
    /\ \E k \in 1..Len(Split(compressed)) : ~IsNoise(Strip(Split(compressed)[k]))
    /\ optimized = compressed

(***************************************************************************)
(* Termination of the driver, checked under Spec.                          *)
(***************************************************************************)
\* the statement the call is at can be executed: the call returns, or the next
\* record is skipped, or its content is a string that goes through the four levels
CanStep ==
    \/ logs = <<>>
    \/ pos = Len(Visited(logs, max_logs))
    \/ /\ pos < Len(Visited(logs, max_logs))
       /\ \/ IsSkipped(ContentOf(pos + 1))
          \/ ContentOf(pos + 1) \notin NotStr

\* a step returns a string or moves the loop on to the next record
Progresses ==
    \/ pc' = "done" /\ Len(result') >= Len(NA)
    \/ pc' = "loop" /\ pos' = pos + 1 /\ pos' <= Len(Visited(logs, max_logs))

\* C14: for every list of records with string fields and every pair of budgets,
\* the call is never stuck before it returns, every step of it returns a string or
\* moves on to the next of the finitely many records, and the call never raises.
C14_Totality ==
    /\ [](pc \in {"loop", "done"} /\ (pc = "loop" => CanStep))
    /\ [][Progresses]_vars

\* a call with a negative character budget on a text without newline has returned
\* a block
C14_Witness ==
    /\ pc = "done"
    /\ max_chars_per_log < 0
    /\ Len(logs) = 1
    /\ Len(Split(ContentOf(1))) = 1
    /\ chunk_src = <<1>>
    /\ Len(result) >= Len(NA)

(***************************************************************************)
(* Properties of calls with malformed records, checked under SpecRecords.  *)
(***************************************************************************)
\* record k lacks a field or holds a field that is not a string
Malformed(k) ==
    \/ "content" \notin DOMAIN logs[k]
    \/ "filename" \notin DOMAIN logs[k]
    \/ logs[k].content \in NotStr
    \/ logs[k].filename \in NotStr

\* C12: no block of the output comes from a record whose content or filename is
\* missing or is not a string, and the call raises no error.
C12_MalformedRecords ==
    /\ pc # "raised"
    /\ \A j \in 1..Len(chunk_src) : ~Malformed(chunk_src[j])

\* a date yyyy-mm-dd and nothing else
IsOnlyTimestamp(s) == Len(s) = 10 /\ StartsWithDate(s)

\* the four noise classes of the claim, on a stripped line
IsClaimedNoise(s) ==
    \/ s = <<>>
    \/ IsOnlyTimestamp(s)
    \/ StartsWith(s, <<"D", "E", "B", "U", "G", ":">>)
    \/ s = <<".">>

RECURSIVE KeptFrom(_, _, _, _)
\* the lines kept when exactly the lines of the four classes are dropped, up to
\* the stop condition
KeptFrom(lines, k, acc, target) ==
    IF k > Len(lines) THEN acc
    ELSE LET line_stripped == Strip(lines[k])
         IN  IF line_stripped = <<>> THEN KeptFrom(lines, k + 1, acc, target)
             ELSE LET acc2 == IF IsClaimedNoise(line_stripped) THEN acc
                              ELSE Append(acc, line_stripped)
                  IN  IF Len(Join(acc2, <<NL>>)) >= target THEN acc2
                      ELSE KeptFrom(lines, k + 1, acc2, target)

\* C16: on a text longer than the target, level4_final_optimization drops exactly
\* the lines that are blank, only a timestamp, begin with 'DEBUG:' or are a lone
\* dot, and keeps every other line in order up to the stop condition.
C16_NoiseClasses ==
    (pc = "done" /\ target_chars > 0 /\ Len(compressed) > target_chars) =>
        optimized = Truncate(Join(PyPrefix(KeptFrom(Split(compressed), 1, <<>>,
                                                    target_chars), LineCap),
                                  <<NL>>), target_chars)

(***************************************************************************)
(* Properties of level2_deduplicate_and_prioritize, checked under          *)
(* SpecLevel2.                                                             *)
(***************************************************************************)
\* the words of a text, lower-cased: its maximal runs of word characters
Tokens(s) ==
    LET starts == {i \in 1..Len(s) :
                      IsWordChar(s[i]) /\ (i = 1 \/ ~IsWordChar(s[i - 1]))}
        ends == {j \in 1..Len(s) :
                    IsWordChar(s[j]) /\ (j = Len(s) \/ ~IsWordChar(s[j + 1]))}
        EndOf(i) == CHOOSE j \in ends : j >= i /\ \A e \in ends : e >= i => j <= e
    IN  {Lower(SubSeq(s, i, EndOf(i))) : i \in starts}

\* the words of the four priority rules and their weights
RuleWords ==
    << <<{<<"c", "r", "i", "t", "i", "c", "a", "l">>, <<"f", "a", "t", "a", "l">>, <<"p", "a", "n", "i", "c">>, <<"a", "b", "o", "r", "t">>}, 10>>,
       <<{<<"e", "r", "r", "o", "r">>, <<"e", "x", "c", "e", "p", "t", "i", "o", "n">>, <<"t", "r", "a", "c", "e", "b", "a", "c", "k">>}, 7>>,
       <<{<<"f", "a", "i", "l", "e", "d">>, <<"f", "a", "i", "l", "u", "r", "e">>, <<"t", "i", "m", "e", "o", "u", "t">>, <<"c", "r", "a", "s", "h", "e", "d">>, <<"c", "r", "a", "s", "h">>}, 5>>,
       <<{<<"w", "a", "r", "n", "i", "n", "g">>, <<"w", "a", "r", "n">>}, 3>> >>

\* the sum of the weights of the rules of which a word is a word of the context
ExpectedScore(content) ==
    LET hit(r) == IF Tokens(content) \cap RuleWords[r][1] # {} THEN RuleWords[r][2] ELSE 0
    IN  hit(1) + hit(2) + hit(3) + hit(4)

\* C15: the score of each context is the sum of the weights 10, 7, 5, 3 of the rules
\* that match somewhere in the context, whatever the case of the letters; it is an
\* integer from 0 to 25.
C15_SeverityScore ==
    \A k \in 1..Len(scored_lines) :
        /\ scored_lines[k][1] = ExpectedScore(scored_lines[k][3])
        /\ scored_lines[k][1] \in 0..25

\* contexts with scores 0, 25 (all four rules, on two lines) and 22 have been
\* scored
C15_Witness ==
    /\ pc = "done"
    /\ \E k \in 1..Len(scored_lines) : scored_lines[k][1] \in {22, 25}
    /\ \E k \in 1..Len(scored_lines) : scored_lines[k][1] = 0

(***************************************************************************)
(* Properties of level3_compress_and_summarize, checked under SpecLevel3.  *)
(***************************************************************************)
\* the first n and the last n characters of s
FirstChars(s, n) == SubSeq(s, 1, Min(n, Len(s)))
LastChars(s, n) == SubSeq(s, Len(s) - Min(n, Len(s)) + 1, Len(s))

\* C17: the string returned by level3_compress_and_summarize is at most max_length
\* plus the marker long, and when the joined lines are longer than max_length it is
\* their first int(0.6 x max_length) characters, the marker and their last
\* int(0.4 x max_length) characters.
C17_CompressorBound ==
    (pc = "done" /\ max_length >= 0) =>
        /\ Len(compressed) <= max_length + Len(CompressedMarker)
        /\ Len(Join(unique_lines, <<NL>>)) > max_length =>
              compressed = FirstChars(Join(unique_lines, <<NL>>), TruncMul(max_length, 6, 10))
                              \o CompressedMarker
                              \o LastChars(Join(unique_lines, <<NL>>),
                                           TruncMul(max_length, 4, 10))

\* the trimmed lines of all contexts of prioritized_content, in encounter order
TrimmedLines ==
    LET lines == FlattenLines(prioritized_content)
    IN  [k \in 1..Len(lines) |-> Strip(lines[k])]

\* the lower-cased first 100 characters of a line
PrefixKey(l) == SubSeq(Lower(l), 1, Min(100, Len(l)))

\* the positions of the trimmed lines that are at least 11 characters long and
\* whose key no earlier such line has
FirstOccurrences ==
    { k \in 1..Len(TrimmedLines) :
        /\ Len(TrimmedLines[k]) >= 11
        /\ \A j \in 1..(k - 1) :
              Len(TrimmedLines[j]) < 11 \/ PrefixKey(TrimmedLines[j]) # PrefixKey(TrimmedLines[k]) }

\* the i-th smallest element of a set of numbers
Nth(S, i) == CHOOSE k \in S : Cardinality({j \in S : j <= k}) = i

\* C18: the lines that level3_compress_and_summarize joins are the trimmed lines of
\* all contexts, in encounter order, that are at least 11 characters long and whose
\* lower-cased first 100 characters occur for the first time; no two of them share
\* that prefix; unless it is longer than max_length, their join is the result.
C18_LineFiltering ==
    pc = "done" =>
        /\ Len(unique_lines) = Cardinality(FirstOccurrences)
        /\ \A i \in 1..Len(unique_lines) :
              unique_lines[i] = TrimmedLines[Nth(FirstOccurrences, i)]
        /\ \A i \in 1..Len(unique_lines) : \A j \in (i + 1)..Len(unique_lines) :
              PrefixKey(unique_lines[i]) # PrefixKey(unique_lines[j])
        /\ Len(Join(unique_lines, <<NL>>)) <= max_length =>
              compressed = Join(unique_lines, <<NL>>)

\* two lines in two contexts are joined to one line: a line of more than 100
\* characters and a line that differs from it after the 100th character
C18_Witness ==
    /\ pc = "done"
    /\ Len(prioritized_content) = 2
    /\ Len(TrimmedLines) = 2
    /\ \A k \in 1..2 : Len(TrimmedLines[k]) > 100
    /\ TrimmedLines[1] # TrimmedLines[2]
    /\ Len(unique_lines) = 1
    /\ max_length = 300
    /\ compressed = TrimmedLines[1]

(***************************************************************************)
(* Properties of level 1, checked under SpecLevel1.                        *)
(***************************************************************************)
\* the lines of L1LinePool that match a semantic pattern ("ERROR x") or hold a
\* keyword in some case ("access Denied", "2 errors")
CriticalPoolLines ==
    { <<"E", "R", "R", "O", "R", " ", "x">>, <<"a", "c", "c", "e", "s", "s", " ", "D", "e", "n", "i", "e", "d">>, <<"2", " ", "e", "r", "r", "o", "r", "s">> }

\* the 0-based indices of the critical lines of the record's text
CriticalIndices ==
    { i \in 0..(Len(Split(ContentOf(1))) - 1) : Split(ContentOf(1))[i + 1] \in CriticalPoolLines }

\* lines max(0, i-2) through min(n-1, i+2) of the record's text, joined
WindowAt(i) ==
    LET all_lines == Split(ContentOf(1))
        first == IF i - 2 > 0 THEN i - 2 ELSE 0
        last == IF i + 2 < Len(all_lines) - 1 THEN i + 2 ELSE Len(all_lines) - 1
    IN  Join([k \in 1..(last - first + 1) |-> all_lines[first + k]], <<NL>>)

\* C19: level1_extract_critical_content returns one tuple (i, window) for each
\* critical line index i and none for other lines, in strictly ascending order of
\* i, the window being lines max(0, i-2) through min(n-1, i+2) joined with newlines.
C19_ExtractorWindows ==
    pc = "done" =>
        /\ Len(critical_lines) = Cardinality(CriticalIndices)
        /\ \A k \in 1..Len(critical_lines) :
              /\ critical_lines[k][1] = Nth(CriticalIndices, k)
              /\ critical_lines[k][2] = WindowAt(critical_lines[k][1])
        /\ \A k \in 1..(Len(critical_lines) - 1) :
              critical_lines[k][1] < critical_lines[k + 1][1]

\* a text of five lines has given three overlapping windows: a full window of five
\* lines around line 2, and clamped windows around lines 0 and 4, found by a
\* pattern and by keywords
C19_Witness ==
    /\ pc = "done"
    /\ Len(Split(ContentOf(1))) = 5
    /\ Len(critical_lines) = 3
    /\ critical_lines[1][1] = 0
    /\ critical_lines[2] = <<2, ContentOf(1)>>
    /\ critical_lines[3][1] = 4
    /\ { Split(ContentOf(1))[1], Split(ContentOf(1))[3], Split(ContentOf(1))[5] }
          = CriticalPoolLines

(***************************************************************************)
(* The fallback of level 1 in the driver, checked under Spec.              *)
(***************************************************************************)
\* no line of the text is critical
NoCriticalLine(content) ==
    \A k \in 1..Len(Split(content)) : ~IsCritical(Split(content)[k], semantic_error_patterns)

\* C20: for a record without critical line the fragments passed on to level 2 are
\* the first max_chars_per_log characters tagged 0 and the last max_chars_per_log
\* characters tagged with the number of lines if the text is longer than twice
\* max_chars_per_log, and the whole text tagged 0 otherwise.
C20_ExtractorFallback ==
    (Processed /\ max_chars_per_log >= 0 /\ NoCriticalLine(ContentOf(pos))) =>
        critical_lines =
            IF Len(ContentOf(pos)) > 2 * max_chars_per_log
            THEN << <<0, FirstChars(ContentOf(pos), max_chars_per_log)>>,
                    <<Len(Split(ContentOf(pos))), LastChars(ContentOf(pos), max_chars_per_log)>> >>
            ELSE << <<0, ContentOf(pos)>> >>

(***************************************************************************)
(* Properties of repeated calls, checked under SpecCalls.                  *)
(***************************************************************************)
\* the call that has just returned has the arguments of the k-th earlier call
SameArgs(k) ==
    /\ history[k].logs = logs
    /\ history[k].max_chars_per_log = max_chars_per_log
    /\ history[k].max_logs = max_logs

\* C6: a call that returns after earlier calls of the same process returns the
\* string that every earlier call with the same record list and the same budgets
\* returned, whatever other calls were made in between.
C6_Determinism ==
    pc = "done" => \A k \in 1..Len(history) : SameArgs(k) => history[k].result = result

\* the third call repeats the first, the second had other arguments, and the
\* result holds two blocks
C6_Witness ==
    /\ pc = "done"
    /\ Len(history) = 2
    /\ SameArgs(1)
    /\ ~SameArgs(2)
    /\ history[2].result # NA
    /\ Len(chunked_logs) = 2
    /\ history[1].result = result

(***************************************************************************)
(* level2_deduplicate_and_prioritize called on long lists.  critical_lines *)
(* holds up to MaxEntries tuples (index, context) with ascending indices.  *)
(* A context is a base text followed by a tag; the tags repeat with a      *)
(* period, the bases change with a step, and a shape puts a blank before   *)
(* every second context or moves the tag beyond the first 200 characters.  *)
(***************************************************************************)
MaxEntries == 22

TagLetters ==
    <<"a", "b", "c", "d", "e", "f", "g", "h", "i", "j", "k", "l", "m",
      "n", "o", "p", "q", "r", "s", "t", "u", "v", "w", "x", "y", "z">>

EntryBases ==
    << <<"a", "l", "l", " ", "i", "s", " ", "w", "e", "l", "l">>,
       <<"E", "R", "R", "O", "R", " ", "d", "i", "s", "k">>,
       <<"W", "A", "R", "N", " ", "l", "o", "w">>,
       <<"f", "a", "t", "a", "l", " ", "e", "r", "r", "o", "r">> >>

Periods == {1, 3, MaxEntries + 1}
Steps == {0, 1, 2}
Shapes == {"plain", "blank", "long"}

\* filler that moves the tag of a context beyond its first 200 characters
Filler == [k \in 1..ContentHashLen |-> "x"]

\* the context of entry k
EntryContext(k, period, step, shape) ==
    LET base == EntryBases[(((k - 1) * step) % Len(EntryBases)) + 1]
        tag == <<" ", "#", TagLetters[((k - 1) % period) + 1]>>
    IN  IF shape = "long" THEN base \o <<" ">> \o Filler \o tag
        ELSE IF shape = "blank" /\ k % 2 = 0 THEN <<" ">> \o base \o tag
        ELSE base \o tag

EntryLists ==
    { [k \in 1..n |-> <<k - 1, EntryContext(k, period, step, shape)>>] :
          n \in 0..MaxEntries, period \in Periods, step \in Steps, shape \in Shapes }

InitPriority ==
    /\ critical_lines \in EntryLists
    /\ prioritized_content = <<>>
    /\ scored_lines = <<>>
    /\ unique_lines = <<>>
    /\ pc = "level2"
    /\ logs = <<>>
    /\ max_chars_per_log = 0
    /\ max_logs = 0
    /\ pos = 0
    /\ max_length = 0
    /\ compressed = <<>>
    /\ target_chars = 0
    /\ optimized = <<>>
    /\ chunked_logs = <<>>
    /\ chunk_src = <<>>
    /\ result = Nil
    /\ history = <<>>
    /\ ExtrasIdle

SpecPriority == InitPriority /\ [][NextLevel2]_vars

(***************************************************************************)
(* Properties of level2_deduplicate_and_prioritize on long lists, checked  *)
(* under SpecPriority.                                                     *)
(***************************************************************************)
\* the first 200 characters of a context after trimming
TrimmedPrefix(c) == FirstChars(Strip(c), 200)

\* the keys of the input contexts, by position
InputKeys == [k \in DOMAIN critical_lines |-> TrimmedPrefix(critical_lines[k][2])]

\* the positions of critical_lines whose key occurs at no earlier position
FirstPositions(keys) ==
    {k \in DOMAIN keys : \A j \in 1..(k - 1) : keys[j] # keys[k]}

\* C21: no two entries of the result have the same first 200 characters after
\* trimming, every entry is the input context that occurs first with its key, and
\* the contexts that are scored are exactly the first occurrences of the keys.
C21_PrefixDeduplication ==
    pc = "done" =>
        \A keys \in {InputKeys} : \A firsts \in {FirstPositions(keys)} :
            /\ \A i, j \in DOMAIN prioritized_content :
                   i # j => TrimmedPrefix(prioritized_content[i])
                                # TrimmedPrefix(prioritized_content[j])
            /\ \A i \in DOMAIN prioritized_content :
                   \E k \in firsts : prioritized_content[i] = critical_lines[k][2]
            /\ {<<scored_lines[i][2], scored_lines[i][3]>> : i \in DOMAIN scored_lines}
                   = {critical_lines[k] : k \in firsts}
            /\ Len(scored_lines) = Cardinality(firsts)

\* two different contexts with the same key were given, one differing from the
\* other by a leading blank and another pair beyond the 200th character or not at
\* all, and the result holds several entries
C21_Witness ==
    /\ pc = "done"
    /\ Len(prioritized_content) >= 2
    /\ \E j, k \in DOMAIN critical_lines :
           /\ j < k
           /\ critical_lines[j][2] # critical_lines[k][2]
           /\ TrimmedPrefix(critical_lines[j][2]) = TrimmedPrefix(critical_lines[k][2])
           /\ \E i \in DOMAIN prioritized_content :
                  prioritized_content[i] = critical_lines[j][2]

\* C22: the result is ordered by descending score with ties broken by ascending
\* original index, it holds at most 20 entries, and they are the first 20 of the
\* deduplicated contexts under that order.
C22_PriorityOrder ==
    pc = "done" =>
        /\ Len(prioritized_content) <= 20
        /\ Len(prioritized_content) = Min(20, Len(scored_lines))
        /\ \A k \in DOMAIN prioritized_content :
               prioritized_content[k] = scored_lines[k][3]
        /\ \A k \in DOMAIN scored_lines :
               scored_lines[k][1] = ExpectedScore(scored_lines[k][3])
        /\ \A i, j \in DOMAIN scored_lines :
               i < j => \/ scored_lines[i][1] > scored_lines[j][1]
                        \/ /\ scored_lines[i][1] = scored_lines[j][1]
                           /\ scored_lines[i][2] < scored_lines[j][2]

\* more than 20 deduplicated contexts with several scores and ties were given, the
\* result holds the first 20, and the context that was cut came before a context
\* that was kept
C22_Witness ==
    /\ pc = "done"
    /\ Len(scored_lines) > 20
    /\ Len(prioritized_content) = 20
    /\ \E i, j \in 1..20 : i < j /\ scored_lines[i][1] = scored_lines[j][1]
    /\ \E i, j \in 1..20 : scored_lines[i][1] > scored_lines[j][1]
    /\ \E i \in 1..20 : scored_lines[i][2] > scored_lines[21][2]

(***************************************************************************)
(* level4_final_optimization called on texts of many short lines.  The     *)
(* text has up to MaxCapLines lines; line k is a letter that changes with  *)
(* k followed by "b", and a shape turns every third line into a DEBUG line *)
(* or pads the lines and puts blank lines between them.                    *)
(***************************************************************************)
MaxCapLines == 52

CapShapes == {"short", "noisy", "padded"}

CapTargets == {-1, 0, 1, 50, 99, 100, 149, 150, 152, 154, 1000}

\* line k of a text
CapLine(k, shape) ==
    LET word == <<TagLetters[((k - 1) % Len(TagLetters)) + 1], "b">>
    IN  IF shape = "noisy" /\ k % 3 = 0 THEN <<"D", "E", "B", "U", "G", ":", " ">> \o word
        ELSE IF shape = "padded" THEN (IF k % 4 = 0 THEN <<" ">> ELSE <<" ">> \o word \o <<"\t">>)
        ELSE word

CapTexts ==
    { Join([k \in 1..n |-> CapLine(k, shape)], <<NL>>) :
          n \in 0..MaxCapLines, shape \in CapShapes }

InitLineCap ==
    /\ compressed \in CapTexts
    /\ target_chars \in CapTargets
    /\ optimized = <<>>
    /\ pc = "level4"
    /\ logs = <<>>
    /\ max_chars_per_log = 0
    /\ max_logs = 0
    /\ pos = 0
    /\ critical_lines = <<>>
    /\ prioritized_content = <<>>
    /\ max_length = 0
    /\ chunked_logs = <<>>
    /\ chunk_src = <<>>
    /\ result = Nil
    /\ history = <<>>
    /\ ExtrasIdle
    /\ scored_lines = <<>>
    /\ unique_lines = <<>>

SpecLineCap == InitLineCap /\ [][NextLevel4]_vars

(***************************************************************************)
(* Properties of the line cap of level4_final_optimization, checked under  *)
(* SpecLineCap.                                                            *)
(***************************************************************************)
IsNonBlank(l) == l # <<>>
IsKept(l) == ~IsNoise(l)

\* the trimmed non-blank lines of a text, in order
NonBlankLines(content) ==
    LET ls == Split(content)
    IN  SelectSeq([k \in 1..Len(ls) |-> Strip(ls[k])], IsNonBlank)

\* the non-noise lines among the first j non-blank lines
KeptAmong(ls, j) == SelectSeq(SubSeq(ls, 1, j), IsKept)

\* the number of non-blank lines the loop reads: it stops after the first line
\* at which the kept lines, joined, reach the target
LinesRead(ls, target) ==
    LET stops == {j \in 1..Len(ls) : Len(Join(KeptAmong(ls, j), <<NL>>)) >= target}
    IN  IF stops = {} THEN Len(ls)
        ELSE CHOOSE j \in stops : \A i \in stops : j <= i

\* the result for kept lines joined to body
CutTo(body, target) ==
    IF Len(body) > target THEN PyPrefix(body, target) \o Ellipsis ELSE body

\* C23: when the input exceeds the target, the result is made of the non-noise
\* lines in order, taken until their accumulated length reaches the target or 50
\* lines have been kept, so it never has more than 50 lines, whatever the
\* character count.
C23_LineCap ==
    (pc = "done" /\ Len(compressed) > target_chars) =>
        \A ls \in {NonBlankLines(compressed)} :
        \A read \in {KeptAmong(ls, LinesRead(ls, target_chars))} :
            /\ optimized = CutTo(Join(SubSeq(read, 1, Min(50, Len(read))), <<NL>>),
                                 target_chars)
            /\ Len(Split(optimized)) <= 50

\* more than 50 non-noise lines were read before the target was reached and the
\* result has exactly 50 lines
C23_Witness ==
    /\ pc = "done"
    /\ Len(compressed) > target_chars
    /\ Len(KeptAmong(NonBlankLines(compressed),
                     LinesRead(NonBlankLines(compressed), target_chars))) > 50
    /\ Len(Split(optimized)) = 50

\* C24: for an input longer than the target with more than 50 non-noise lines of
\* which the first 50, joined, are shorter than the target, the result is those 50
\* lines: it is shorter than the target although further non-noise lines were
\* available.
C24_CapBelowBudget ==
    (pc = "done" /\ Len(compressed) > target_chars) =>
        \A kept \in {SelectSeq(NonBlankLines(compressed), IsKept)} :
            (Len(kept) > 50 /\ Len(Join(SubSeq(kept, 1, 50), <<NL>>)) < target_chars) =>
                /\ optimized = Join(SubSeq(kept, 1, 50), <<NL>>)
                /\ Len(optimized) < target_chars

\* a text of 52 two-character lines (155 characters) and a target of 154: the
\* result is the first 50 lines, 149 characters
C24_Witness ==
    /\ pc = "done"
    /\ Len(compressed) = 155
    /\ target_chars = 154
    /\ Len(optimized) = 149
    /\ Len(SelectSeq(NonBlankLines(compressed), IsKept)) = 52

(***************************************************************************)
(* multilevel_chunk_logs called on records with short contents: a missing  *)
(* content, the empty text, texts of fewer than 10 characters with and     *)
(* without a critical keyword, texts that are that short only after        *)
(* trimming, and texts of 10 characters and more.                          *)
(***************************************************************************)
MaxShortLogs == 2

ShortContents ==
    { Absent,
      <<>>,
      <<"E", "R", "R", "O", "R", " ", "x">>,
      <<" ", " ", "E", "R", "R", "O", "R", " ", "x", " ", "\t", NL>>,
      <<"f", "a", "t", "a", "l", NL, " ", "p", "a", "n", "i", "c">>,
      <<" ", NL, " ", NL, " ", NL, " ", NL, " ", NL, " ">>,
      <<"I", "N", "F", "O", " ", "d", "o", "n", "e">>,
      <<"I", "N", "F", "O", " ", "s", "t", "a", "r", "t">>,
      <<"E", "R", "R", "O", "R", " ", "d", "i", "s", "k", " ", "f", "u", "l", "l">> }

ShortRecordLists ==
    UNION { [1..n -> { MakeRecord(<<"f">>, c) : c \in ShortContents }] :
            n \in 0..MaxShortLogs }

ShortBudgets == { <<200, MaxShortLogs>>, <<16, 1>> }

InitShort ==
    /\ logs \in ShortRecordLists
    /\ \E b \in ShortBudgets : max_chars_per_log = b[1] /\ max_logs = b[2]
    /\ pos = 0
    /\ critical_lines = <<>>
    /\ prioritized_content = <<>>
    /\ max_length = 0
    /\ compressed = <<>>
    /\ target_chars = 0
    /\ optimized = <<>>
    /\ chunked_logs = <<>>
    /\ chunk_src = <<>>
    /\ pc = "loop"
    /\ result = Nil
    /\ history = <<>>
    /\ ExtrasIdle
    /\ scored_lines = <<>>
    /\ unique_lines = <<>>

SpecShort == InitShort /\ [][Next]_vars

(***************************************************************************)
(* Properties of short records, checked under SpecShort.                   *)
(***************************************************************************)
\* the content of record k is missing, empty, or shorter than 10 characters after
\* trimming
IsShortRecord(k) ==
    \/ "content" \notin DOMAIN logs[k]
    \/ logs[k].content = <<>>
    \/ Len(Strip(logs[k].content)) < 10

\* the step visits a record
VisitsRecord == pos' = pos + 1

\* C25: no block comes from a record whose content is missing, empty, or shorter
\* than 10 characters after trimming, and the step that visits such a record runs
\* none of the four stages and adds no block.
C25_ShortRecordsSkipped ==
    /\ [](\A j \in 1..Len(chunk_src) : ~IsShortRecord(chunk_src[j]))
    /\ [][(VisitsRecord /\ IsShortRecord(pos + 1)) =>
              /\ critical_lines' = <<>>
              /\ prioritized_content' = <<>>
              /\ compressed' = <<>>
              /\ optimized' = <<>>
              /\ chunked_logs' = chunked_logs
              /\ chunk_src' = chunk_src]_vars

\* a record of 12 characters that holds 'ERROR x' between blanks was visited and
\* gave no block, and the record after it gave one
C25_Witness ==
    /\ pc = "done"
    /\ Len(logs) = 2
    /\ "content" \in DOMAIN logs[1]
    /\ Len(logs[1].content) >= 10
    /\ Contains(Lower(logs[1].content), <<"e", "r", "r", "o", "r">>)
    /\ IsShortRecord(1)
    /\ chunk_src = <<2>>

(***************************************************************************)
(* multilevel_chunk_text (smart_chunk_text): the reduction of one text.    *)
(***************************************************************************)
\* critical_patterns of multilevel_chunk_text
critical_patterns ==
    <<
      {
       <<"e", "r", "r", "o", "r">>,
       <<"f", "a", "t", "a", "l">>,
       <<"c", "r", "i", "t", "i", "c", "a", "l">>,
       <<"e", "x", "c", "e", "p", "t", "i", "o", "n">>},
      {
       <<"f", "a", "i", "l", "e", "d">>,
       <<"f", "a", "i", "l", "u", "r", "e">>,
       <<"t", "i", "m", "e", "o", "u", "t">>,
       <<"c", "r", "a", "s", "h", "e", "d">>,
       <<"c", "r", "a", "s", "h">>,
       <<"a", "b", "o", "r", "t">>,
       <<"p", "a", "n", "i", "c">>},
      {
       <<"t", "r", "a", "c", "e", "b", "a", "c", "k">>,
       <<"s", "t", "a", "c", "k", SP, "t", "r", "a", "c", "e">>},
      {
       <<"p", "o", "d", ANY, "f", "a", "i", "l">>,
       <<"p", "o", "d", ANY, "e", "r", "r", "o", "r">>,
       <<"c", "r", "a", "s", "h", "l", "o", "o", "p", "b", "a", "c", "k", "o", "f", "f">>,
       <<"n", "o", "t", "r", "e", "a", "d", "y">>}>>

\* '\n\n[... optimized and compressed ...]\n\n'
OptimizedMarker ==
    <<NL, NL, "[", ".", ".", ".", " ", "o", "p", "t", "i", "m", "i", "z", "e", "d", " ", "a", "n", "d", " ", "c", "o", "m", "p", "r", "e", "s", "s", "e", "d", " ", ".", ".", ".", "]", NL, NL>>

\* some pattern of critical_patterns is found in the line
IsCriticalText(line) ==
    \E p \in 1..Len(critical_patterns) : ReSearch(critical_patterns[p], line)

\* '\n'.join(lines[max(0, i - 1):min(len(lines), i + 2)]) for the 0-based index i
TextContext(lines, i) ==
    LET start == Max(0, i - 1)
        end == Min(Len(lines), i + 2)
    IN  Join(SubSeq(lines, start + 1, end), <<NL>>)

RECURSIVE TextCriticalFrom(_, _)
\* the loop over enumerate(lines): one context per critical line
TextCriticalFrom(lines, i) ==
    IF i >= Len(lines) THEN <<>>
    ELSE (IF IsCriticalText(lines[i + 1]) THEN <<TextContext(lines, i)>> ELSE <<>>)
             \o TextCriticalFrom(lines, i + 1)

\* critical_lines after the loop and the first/last fallback
TextCriticalOrFallback(t, target) ==
    LET found == TextCriticalFrom(Split(t), 0)
    IN  IF found # <<>> THEN found
        ELSE IF Len(t) > target * 2
             THEN <<PyPrefix(t, target), PySuffix(t, target)>>
             ELSE <<t>>

\* the final truncation: first 60%, marker, last 40%
TextTruncate(joined, target) ==
    IF Len(joined) > target
    THEN PyPrefix(joined, TruncMul(target, 6, 10))
             \o OptimizedMarker
             \o PySuffix(joined, TruncMul(target, 4, 10))
    ELSE joined

\* multilevel_chunk_text(text, target_chars)
multilevel_chunk_text(t, target) ==
    IF t = <<>> \/ t = NA THEN NA
    ELSE IF Len(t) <= target THEN t
    ELSE TextTruncate(Join(UniqueLines(TextCriticalOrFallback(t, target)), <<NL>>),
                      target)

\* smart_chunk_text(text, max_chars)
smart_chunk_text(t, max_chars) == multilevel_chunk_text(t, max_chars)

(***************************************************************************)
(* The calls of smart_chunk_text that are explored: texts of up to         *)
(* MaxTextLines lines of TextLinePool and the targets of TextTargets.      *)
(***************************************************************************)
MaxTextLines == 3

TextLinePool ==
    { <<"E", "R", "R", "O", "R", " ", "c", "o", "n", "n", "e", "c", "t", "i", "o", "n", " ", "r", "e", "f", "u", "s", "e", "d">>,
      <<"I", "N", "F", "O", " ", "s", "t", "a", "r", "t">>,
      <<"a", "l", "l", " ", "s", "y", "s", "t", "e", "m", "s", " ", "n", "o", "m", "i", "n", "a", "l", " ", "t", "o", "d", "a", "y">>,
      <<" ", " ", "p", "o", "d", " ", "w", "e", "b", "-", "1", " ", "i", "s", " ", "g", "o", "i", "n", "g", " ", "t", "o", " ", "f", "a", "i", "l", " ", " ">>,
      <<"s", "t", "a", "c", "k", " ", " ", "t", "r", "a", "c", "e", " ", "f", "o", "l", "l", "o", "w", "s", " ", "b", "e", "l", "o", "w">>,
      <<>>,
      <<"N", "/", "A">> }

TextTargets == {0, 1, 2, 3, 5, 12, 20, 30, 100}

TextInputs ==
    UNION { { Join(ls, <<NL>>) : ls \in [1..n -> TextLinePool] } : n \in 1..MaxTextLines }

\* the log pipeline is not running
ChunkerIdle ==
    /\ logs = <<>>
    /\ max_chars_per_log = 0
    /\ max_logs = 0
    /\ pos = 0
    /\ prioritized_content = <<>>
    /\ max_length = 0
    /\ optimized = <<>>
    /\ chunked_logs = <<>>
    /\ chunk_src = <<>>
    /\ history = <<>>
    /\ scored_lines = <<>>

InitText ==
    /\ text \in TextInputs
    /\ target_chars \in TextTargets
    /\ critical_lines = <<>>
    /\ unique_lines = <<>>
    /\ compressed = <<>>
    /\ result = Nil
    /\ pc = "text"
    /\ ChunkerIdle
    /\ outcomes = <<>>
    /\ attempt = 0
    /\ calls = 0
    /\ slept = <<>>
    /\ last_error = "none"
    /\ session_state = <<>>
    /\ uploaded_file = "none"

\* result = smart_chunk_text(text, target_chars)
ChunkTextCall ==
    /\ pc = "text"
    /\ \E crit \in {IF text = <<>> \/ text = NA \/ Len(text) <= target_chars THEN <<>>
                    ELSE TextCriticalOrFallback(text, target_chars)} :
       \E uniq \in {UniqueLines(crit)} :
          /\ critical_lines' = crit
          /\ unique_lines' = uniq
          /\ compressed' = Join(uniq, <<NL>>)
    /\ result' = smart_chunk_text(text, target_chars)
    /\ pc' = "done"
    /\ UNCHANGED <<text, target_chars, logs, max_chars_per_log, max_logs, pos,
                   prioritized_content, max_length, optimized, chunked_logs, chunk_src,
                   history, scored_lines, outcomes, attempt, calls, slept, last_error,
                   session_state, uploaded_file>>

NextText == ChunkTextCall

SpecText == InitText /\ [][NextText]_vars

(***************************************************************************)
(* Properties of smart_chunk_text, checked under SpecText.                 *)
(***************************************************************************)
\* C26: for every non-empty text and every target_chars >= 1 the returned string is
\* no longer than the text.
C26_NeverGrows ==
    (pc = "done" /\ text # <<>> /\ target_chars >= 1) => Len(result) <= Len(text)

\* C27: for every non-empty text and every target_chars >= 1 the returned string is
\* not empty.
C27_NeverEmpty ==
    (pc = "done" /\ text # <<>> /\ target_chars >= 1) => result # <<>>

(***************************************************************************)
(* level4_final_optimization applied to its own result, with the same      *)
(* target: the inputs of SpecLevel4, then a second call.                   *)
(***************************************************************************)
\* result = level4_final_optimization(optimized, target_chars)
Level4Again ==
    /\ pc = "done"
    /\ result = Nil
    /\ result' = level4_final_optimization(optimized, target_chars)
    /\ pc' = "twice"
    /\ UNCHANGED <<extras, locals, history, args, pos, stages, chunked_logs, chunk_src>>

NextTwice == Level4Call \/ Level4Again

SpecTwice == InitLevel4 /\ [][NextTwice]_vars

\* C28: for every text and every target >= 0, the final stage applied to its own
\* result with the same target returns that result, also when the result ends
\* with the '...' marker and is longer than the target.
C28_Idempotence ==
    (pc = "twice" /\ target_chars >= 0) => result = optimized

\* the first result was cut, carries the marker and is longer than the target, and
\* the second call went through the filter again
C28_Witness ==
    /\ pc = "twice"
    /\ target_chars >= 1
    /\ Len(optimized) > target_chars
    /\ EndsWith(optimized, Ellipsis)
    /\ optimized # compressed
    /\ \E k \in 1..Len(optimized) : optimized[k] = NL

(***************************************************************************)
(* process_chat_query: the retry loop around model.generate_content.  An   *)
(* outcome of a model call is <<"text", t>> (a response whose text is t,   *)
(* NoneValue for a response without text) or <<"error", m>> (an exception  *)
(* whose str() is m).  A returned string is <<kind, detail>>.              *)
(***************************************************************************)
max_retries == 3
base_delay == 2
max_delay == 30

\* a test that takes every error for a rate-limit error
AnyErrorRetried(error_str) == TRUE

\* "429" in error_str or "Resource exhausted" in error_str or "quota" in error_str.lower()
IsRateLimit(error_str) ==
    \/ Contains(error_str, <<"4", "2", "9">>)
    \/ Contains(error_str, <<"R", "e", "s", "o", "u", "r", "c", "e", " ", "e", "x", "h", "a", "u", "s", "t", "e", "d">>)
    \/ Contains(Lower(error_str), <<"q", "u", "o", "t", "a">>)

\* min(base_delay * (2 ** attempt), max_delay)
Delay(n) == Min(base_delay * (2 ^ n), max_delay)

\* str(e) of the AttributeError raised by response.text.strip() on None
NoneStripError == <<"'", "N", "o", "n", "e", "T", "y", "p", "e", "'", " ", "o", "b", "j", "e", "c", "t", " ", "h", "a", "s", " ", "n", "o", " ", "a", "t", "t", "r", "i", "b", "u", "t", "e", " ", "'", "s", "t", "r", "i", "p", "'">>

\* the message of the exception that a call with this outcome raises inside the try
RaisedBy(outcome) ==
    IF outcome[1] = "error" THEN outcome[2] ELSE NoneStripError

\* the call returns a response whose text can be stripped
Succeeds(outcome) == outcome[1] = "text" /\ outcome[2] # NoneValue

\* if not GEMINI_API_KEY: return the warning
ReturnNoApiKey ==
    /\ pc = "start"
    /\ pc' = "done"
    /\ result' = <<"no_api_key", <<>>>>
    /\ UNCHANGED <<text, outcomes, attempt, calls, slept, last_error, session_state,
                   uploaded_file, locals, history, args, pos, stages, chunked_logs, chunk_src>>

\* building the context or the prompt raises: the outer except returns a message
PrepareFails ==
    /\ pc = "start"
    /\ pc' = "done"
    /\ result' = <<"error_processing_query", <<>>>>
    /\ UNCHANGED <<text, outcomes, attempt, calls, slept, last_error, session_state,
                   uploaded_file, locals, history, args, pos, stages, chunked_logs, chunk_src>>

\* the prompt is built and the retry loop is entered
Prepare ==
    /\ pc = "start"
    /\ pc' = "call"
    /\ attempt' = 0
    /\ last_error' = "none"
    /\ UNCHANGED <<text, outcomes, calls, slept, session_state, uploaded_file, locals,
                   history, args, pos, stages, chunked_logs, chunk_src, result>>

\* one iteration: the call returns a text, and response.text.strip() is returned
CallSucceeds ==
    /\ pc = "call"
    /\ attempt < max_retries
    /\ calls < Len(outcomes)
    /\ Succeeds(outcomes[calls + 1])
    /\ calls' = calls + 1
    /\ result' = <<"answer", Strip(outcomes[calls + 1][2])>>
    /\ pc' = "done"
    /\ UNCHANGED <<text, outcomes, attempt, slept, last_error, session_state,
                   uploaded_file, locals, history, args, pos, stages, chunked_logs, chunk_src>>

\* one iteration: a rate-limit error before the last attempt; sleep and continue
CallRateLimited ==
    /\ pc = "call"
    /\ attempt < max_retries
    /\ calls < Len(outcomes)
    /\ ~Succeeds(outcomes[calls + 1])
    /\ IsRateLimit(RaisedBy(outcomes[calls + 1]))
    /\ attempt < max_retries - 1
    /\ calls' = calls + 1
    /\ last_error' = RaisedBy(outcomes[calls + 1])
    /\ slept' = Append(slept, Delay(attempt))
    /\ attempt' = attempt + 1
    /\ UNCHANGED <<text, outcomes, session_state, uploaded_file, locals, history, args,
                   pos, stages, chunked_logs, chunk_src, pc, result>>

\* one iteration: a rate-limit error at the last attempt; the rate-limit message
CallRateLimitedLast ==
    /\ pc = "call"
    /\ attempt < max_retries
    /\ calls < Len(outcomes)
    /\ ~Succeeds(outcomes[calls + 1])
    /\ IsRateLimit(RaisedBy(outcomes[calls + 1]))
    /\ attempt >= max_retries - 1
    /\ calls' = calls + 1
    /\ last_error' = RaisedBy(outcomes[calls + 1])
    /\ result' = <<"rate_limit_error", RaisedBy(outcomes[calls + 1])>>
    /\ pc' = "done"
    /\ UNCHANGED <<text, outcomes, attempt, slept, session_state, uploaded_file, locals,
                   history, args, pos, stages, chunked_logs, chunk_src>>

\* one iteration: another error; break
CallFails ==
    /\ pc = "call"
    /\ attempt < max_retries
    /\ calls < Len(outcomes)
    /\ ~Succeeds(outcomes[calls + 1])
    /\ ~IsRateLimit(RaisedBy(outcomes[calls + 1]))
    /\ calls' = calls + 1
    /\ last_error' = RaisedBy(outcomes[calls + 1])
    /\ pc' = "after_loop"
    /\ UNCHANGED <<text, outcomes, attempt, slept, session_state, uploaded_file, locals,
                   history, args, pos, stages, chunked_logs, chunk_src, result>>

\* after the loop: the error message of the last exception is returned
ReturnError ==
    /\ \/ pc = "after_loop"
       \/ pc = "call" /\ attempt >= max_retries
    /\ LET error_msg == IF last_error # "none" THEN last_error
                        ELSE <<"U", "n", "k", "n", "o", "w", "n", " ", "e", "r", "r", "o", "r">>
       IN  result' = IF /\ ~Contains(error_msg, <<"4", "2", "9">>)
                        /\ ~Contains(error_msg, <<"R", "e", "s", "o", "u", "r", "c", "e", " ", "e", "x", "h", "a", "u", "s", "t", "e", "d">>)
                     THEN <<"error_processing_query", error_msg>>
                     ELSE <<"error_msg", error_msg>>
    /\ pc' = "done"
    /\ UNCHANGED <<text, outcomes, attempt, calls, slept, last_error, session_state,
                   uploaded_file, locals, history, args, pos, stages, chunked_logs, chunk_src>>

(***************************************************************************)
(* The queries that are explored: every sequence of MaxOutcomes outcomes   *)
(* of OutcomePool.                                                         *)
(***************************************************************************)
MaxOutcomes == 4

OutcomePool ==
    { <<"text", <<" ", "T", "h", "e", " ", "p", "o", "d", " ", "w", "a", "s", " ", "O", "O", "M", "K", "i", "l", "l", "e", "d", ".", " ">>>>,
      <<"text", NoneValue>>,
      <<"error", <<"4", "2", "9", " ", "T", "o", "o", " ", "M", "a", "n", "y", " ", "R", "e", "q", "u", "e", "s", "t", "s">>>>,
      <<"error", <<"R", "e", "s", "o", "u", "r", "c", "e", " ", "e", "x", "h", "a", "u", "s", "t", "e", "d">>>>,
      <<"error", <<"Q", "u", "o", "t", "a", " ", "e", "x", "c", "e", "e", "d", "e", "d">>>>,
      <<"error", <<"5", "0", "0", " ", "I", "n", "t", "e", "r", "n", "a", "l", " ", "e", "r", "r", "o", "r">>>>,
      <<"error", <<>>>> }

InitChat ==
    /\ outcomes \in [1..MaxOutcomes -> OutcomePool]
    /\ attempt = 0
    /\ calls = 0
    /\ slept = <<>>
    /\ last_error = "none"
    /\ pc = "start"
    /\ result = Nil
    /\ text = <<>>
    /\ session_state = <<>>
    /\ uploaded_file = "none"
    /\ critical_lines = <<>>
    /\ unique_lines = <<>>
    /\ compressed = <<>>
    /\ target_chars = 0
    /\ ChunkerIdle

NextChat ==
    \/ ReturnNoApiKey
    \/ PrepareFails
    \/ Prepare
    \/ CallSucceeds
    \/ CallRateLimited
    \/ CallRateLimitedLast
    \/ CallFails
    \/ ReturnError

SpecChat == InitChat /\ [][NextChat]_vars

(***************************************************************************)
(* Properties of the retry loop of process_chat_query, checked under       *)
(* SpecChat.                                                               *)
(***************************************************************************)
\* the outcome is an error whose message holds '429', 'Resource exhausted' or
\* 'quota' (in any case of the letters)
IsRateLimitOutcome(o) ==
    /\ o[1] = "error"
    /\ \/ \E i \in 1..Len(o[2]) : OccursAt(o[2], <<"4", "2", "9">>, i)
       \/ \E i \in 1..Len(o[2]) : OccursAt(o[2], <<"R", "e", "s", "o", "u", "r", "c", "e", " ", "e", "x", "h", "a", "u", "s", "t", "e", "d">>, i)
       \/ \E i \in 1..Len(o[2]) : OccursAt(Lower(o[2]), <<"q", "u", "o", "t", "a">>, i)

\* the backoff before call number k + 2, in seconds: min(2 x 2^k, 30)
Backoff(k) == IF 2 * (2 ^ k) < 30 THEN 2 * (2 ^ k) ELSE 30

\* the kinds of string that process_chat_query returns
ReturnedStrings ==
    {"no_api_key", "error_processing_query", "answer", "rate_limit_error", "error_msg"}

\* the query has a step to take
ChatCanStep ==
    \/ pc = "start"
    \/ pc = "after_loop"
    \/ pc = "call" /\ attempt < 3 /\ calls < Len(outcomes)

\* a step makes a model call or moves on, and nothing follows the return
ChatProgresses == pc # "done" /\ (calls' = calls + 1 \/ pc' # pc)

\* C29: for every sequence of outcomes the model is called at most 3 times; a
\* further call is made only after a rate-limit error and a backoff of
\* min(2 x 2^attempt, 30) seconds; the first success or other error ends the
\* calls; and the query ends by returning a string, never by raising.
C29_BoundedRetry ==
    /\ [](/\ calls <= 3
          /\ pc \in {"start", "call", "after_loop", "done"}
          /\ \A k \in 1..(calls - 1) : IsRateLimitOutcome(outcomes[k])
          /\ pc = "call" => \A k \in 1..calls : IsRateLimitOutcome(outcomes[k])
          /\ pc = "call" => Len(slept) = calls
          /\ Len(slept) >= calls - 1
          /\ \A k \in 1..Len(slept) : slept[k] = Backoff(k - 1)
          /\ pc = "done" => result # Nil /\ result[1] \in ReturnedStrings
          /\ pc # "done" => ChatCanStep)
    /\ [][ChatProgresses]_vars

\* two rate-limit errors, backoffs of 2 and 4 seconds, and an answer at the third
\* call, with a fourth outcome left unused
C29_Witness ==
    /\ pc = "done"
    /\ calls = 3
    /\ slept = <<2, 4>>
    /\ result[1] = "answer"
    /\ outcomes[4][1] = "text"

(***************************************************************************)
(* The dashboard main(): one action per run of the script, started by a    *)
(* widget event.  A bundle stands for the dict that parse_rca_bundle       *)
(* returns; an analysis result and a chat answer carry the bundle that was *)
(* passed to perform_l1/l2/l3_analysis or process_chat_query.              *)
(***************************************************************************)
MaxChat == 2

Levels == {"L1", "L2", "L3"}

Files == {"a.tar.gz", "b.tar.gz", "broken.tar.gz"}

\* the empty dict
EmptyDict == [k \in {} |-> k]

\* d[key] = value
DictSet(d, key, value) ==
    [k \in DOMAIN d \cup {key} |-> IF k = key THEN value ELSE d[k]]

\* parse_rca_bundle(uploaded_file): a bundle, or None when the archive cannot be read
parse_rca_bundle(file) ==
    IF file = "a.tar.gz" THEN "bundle_a"
    ELSE IF file = "b.tar.gz" THEN "bundle_b"
    ELSE "None"

\* the upload section of a run: session state after it
UploadSection(ss, file) ==
    IF file # "none" /\ parse_rca_bundle(file) # "None"
    THEN [ss EXCEPT !.bundle_data = parse_rca_bundle(file)]
    ELSE ss

\* the state that the initialisation at import gives a new session
InitMain ==
    /\ session_state = [bundle_data |-> "None", analysis_results |-> EmptyDict,
                        analysis_data |-> EmptyDict, chat_history |-> <<>>]
    /\ uploaded_file = "none"
    /\ pc = "dashboard"
    /\ result = Nil
    /\ text = <<>>
    /\ outcomes = <<>>
    /\ attempt = 0
    /\ calls = 0
    /\ slept = <<>>
    /\ last_error = "none"
    /\ critical_lines = <<>>
    /\ unique_lines = <<>>
    /\ compressed = <<>>
    /\ target_chars = 0
    /\ ChunkerIdle

\* the user puts a file into the uploader; the script runs
ChooseFile ==
    /\ pc = "dashboard"
    /\ \E f \in Files :
        /\ f # uploaded_file
        /\ uploaded_file' = f
        /\ session_state' = UploadSection(session_state, f)
    /\ UNCHANGED <<text, outcomes, attempt, calls, slept, last_error, locals, history,
                   args, pos, stages, chunked_logs, chunk_src, pc, result>>

\* the user removes the file from the uploader; the script runs
ClearFile ==
    /\ pc = "dashboard"
    /\ uploaded_file # "none"
    /\ uploaded_file' = "none"
    /\ UNCHANGED <<session_state, text, outcomes, attempt, calls, slept, last_error,
                   locals, history, args, pos, stages, chunked_logs, chunk_src, pc, result>>

\* the user presses 'Run L1/L2/L3 Analysis'; the script runs
RunAnalysis ==
    /\ pc = "dashboard"
    /\ session_state.bundle_data # "None"
    /\ \E level \in Levels :
       \E ss \in {UploadSection(session_state, uploaded_file)} :
       \E analysis \in {[level |-> level, bundle |-> ss.bundle_data]} :
          session_state' =
              [ss EXCEPT !.analysis_results = DictSet(@, level, analysis),
                         !.analysis_data = IF level = "L1"
                                           THEN DictSet(@, level, analysis) ELSE @]
    /\ UNCHANGED <<uploaded_file, text, outcomes, attempt, calls, slept, last_error,
                   locals, history, args, pos, stages, chunked_logs, chunk_src, pc, result>>

\* the user sends a question in the chat input; the script runs and reruns
AskQuestion ==
    /\ pc = "dashboard"
    /\ session_state.bundle_data # "None"
    /\ Len(session_state.chat_history) < MaxChat
    /\ \E ss \in {UploadSection(session_state, uploaded_file)} :
          session_state' =
              [ss EXCEPT !.chat_history =
                             Append(@, [user |-> "question", bundle |-> ss.bundle_data])]
    /\ UNCHANGED <<uploaded_file, text, outcomes, attempt, calls, slept, last_error,
                   locals, history, args, pos, stages, chunked_logs, chunk_src, pc, result>>

NextMain == ChooseFile \/ ClearFile \/ RunAnalysis \/ AskQuestion

SpecMain == InitMain /\ [][NextMain]_vars

(***************************************************************************)
(* Properties of the dashboard, checked under SpecMain.                    *)
(***************************************************************************)
\* C30: after any sequence of uploads and analysis runs, every entry of
\* analysis_results, analysis_data and chat_history that the dashboard shows or
\* offers for download was produced from the bundle now held in bundle_data.
C30_ResultsMatchBundle ==
    /\ \A l \in DOMAIN session_state.analysis_results :
           session_state.analysis_results[l].bundle = session_state.bundle_data
    /\ \A l \in DOMAIN session_state.analysis_data :
           session_state.analysis_data[l].bundle = session_state.bundle_data
    /\ \A k \in 1..Len(session_state.chat_history) :
           session_state.chat_history[k].bundle = session_state.bundle_data

====
